---- MODULE Spec2Model ----
(***************************************************************************)
(* MakanSini: the restaurant scoring engine of app_3.py (the one-shot      *)
(* chatbot) and the result selection of its main().                        *)
(*                                                                         *)
(* Text is a sequence of one-character strings, so that lower-casing and   *)
(* substring tests are computed, not assumed.  A numeric cell is <<>> when *)
(* it is NaN and <<n>> when it holds n.  Ratings, spends, minutes and      *)
(* budgets are whole numbers.                                              *)
(***************************************************************************)
EXTENDS Integers, Sequences, FiniteSets, TLC

\* ------------------------------------------------------------------ bounds
MaxRows == 2          \* rows of the catalog
MaxSetFields == 2     \* preference fields that differ from "no preference"
MaxRanked == 4        \* rows of a ranked list handed to the selection

\* -------------------------------------------------------------------- text
UpperChars == <<"A","B","C","D","E","F","G","H","I","J","K","L","M",
                "N","O","P","Q","R","S","T","U","V","W","X","Y","Z">>
LowerChars == <<"a","b","c","d","e","f","g","h","i","j","k","l","m",
                "n","o","p","q","r","s","t","u","v","w","x","y","z">>

LowerChar(c) ==
    IF \E i \in 1..Len(UpperChars) : UpperChars[i] = c
    THEN LowerChars[CHOOSE i \in 1..Len(UpperChars) : UpperChars[i] = c]
    ELSE c

\* str.lower()
Lower(s) == [i \in 1..Len(s) |-> LowerChar(s[i])]

\* "sub in s" / str.contains(sub) for a pattern without regex metacharacters
Contains(s, sub) ==
    \E i \in 0..(Len(s) - Len(sub)) : SubSeq(s, i + 1, i + Len(sub)) = sub

\* Series.str.contains(pat, case=False)
ContainsNoCase(s, sub) == Contains(Lower(s), Lower(sub))

\* a NaN cell of a text column, and what astype(str) makes of it
NaN == <<"NaN">>
AsStr(x) == IF x = NaN THEN <<"n","a","n">> ELSE x

\* a NaN cell of a numeric column
NaNNum == <<>>
NotNa(x) == x # NaNNum
\* Series.le(v): False on NaN
Le(x, v) == NotNa(x) /\ x[1] <= v

\* ---------------------------------------------------------------- literals
sYes == <<"y","e","s">>
sHalal == <<"h","a","l","a","l">>
sAny == <<"a","n","y">>
sAnyCap == <<"A","n","y">>
sHalalOnly == <<"H","a","l","a","l"," ","o","n","l","y">>
sDoesntMatter == <<"D","o","e","s","n","'","t"," ","m","a","t","t","e","r">>
sInsideUTP == <<"I","n","s","i","d","e"," ","U","T","P">>
sOutsideUTP == <<"O","u","t","s","i","d","e"," ","U","T","P">>
sTronoh == <<"T","r","o","n","o","h">>
sMonday == <<"M","o","n","d","a","y">>
sTuesday == <<"T","u","e","s","d","a","y">>
sMamak == <<"M","a","m","a","k">>
sWestern == <<"W","e","s","t","e","r","n">>
sMalay == <<"M","a","l","a","y">>
sDinner == <<"D","i","n","n","e","r">>
sExpensive == <<"e","x","p","e","n","s","i","v","e">>
sCheap == <<"c","h","e","a","p">>
\* None for a text-valued preference
None == <<"None">>

\* ----------------------------------------------------------------- catalog
\* One row of the data frame load_catalog returns (the columns the engine reads).
Row(n, cu, lo, hi, tag, h, d, t, loc, r) ==
    [name |-> n, cuisine |-> cu, min_spend |-> lo, max_spend |-> hi,
     dining_tag |-> tag, halal |-> h, days |-> d, travel_mins |-> t,
     location |-> loc, rating |-> r]

RowA == Row(<<"A">>, sMamak, <<10>>, <<20>>,
            <<"L","u","n","c","h",","," ","D","i","n","n","e","r">>, <<"Y","e","s">>,
            <<"M","o","n","d","a","y",","," ","T","u","e","s","d","a","y">>,
            <<5>>, sInsideUTP, <<4>>)
RowB == Row(<<"B">>, sWestern, <<15>>, <<25>>, sDinner, <<"N","o">>,
            <<"M","o","n","d","a","y",","," ","T","u","e","s","d","a","y">>,
            <<15>>, sTronoh, <<5>>)
RowC == Row(<<"C">>, <<"M","a","l","a","y",","," ","M","a","m","a","k">>, <<25>>, <<30>>,
            <<"B","r","e","a","k","f","a","s","t">>, <<"Y","E","S">>,
            <<"t","u","e","s","d","a","y">>, <<10>>, sTronoh, <<0>>)
\* the same restaurant data as RowA under another name
RowD == Row(<<"D">>, sMamak, <<10>>, <<20>>,
            <<"L","u","n","c","h",","," ","D","i","n","n","e","r">>, <<"Y","e","s">>,
            <<"M","o","n","d","a","y",","," ","T","u","e","s","d","a","y">>,
            <<5>>, sInsideUTP, <<4>>)
\* a row whose optional cells are all empty in the CSV
RowE == Row(<<"E">>, NaN, NaNNum, <<20>>, NaN, NaN, NaN, NaNNum, NaN, NaNNum)

RowPool == {RowA, RowB, RowC, RowD, RowE}

Range(s) == {s[i] : i \in 1..Len(s)}

\* the catalogs of at most MaxRows distinct rows, in every order
Catalogs ==
    UNION {{s \in [1..n -> RowPool] : \A i, j \in 1..n : i # j => s[i] # s[j]}
           : n \in 0..MaxRows}

\* strftime("%A") of the system clock
Weekdays == {sMonday, sTuesday}

\* ------------------------------------------------------------- preferences
pick_halal_pref(t) ==
    IF Contains(Lower(t), sHalal) THEN sHalalOnly ELSE sDoesntMatter

\* texts a user may type, as far as the halal extraction reads them
HalalTexts == {sHalal, <<"n","o","t"," ","H","A","L","A","L">>, sMamak}

NoPreference ==
    [cuisine |-> None, cuisines |-> <<>>, max_budget |-> NaNNum,
     budget_level |-> None, meal_type |-> sAnyCap, max_travel |-> NaNNum,
     halal_pref |-> sDoesntMatter, location_pref |-> sAnyCap]

\* cuisines is what pick_cuisine found and cuisine its first element
\* (parse_one_shot); a caller that fills cuisine alone is covered too
CuisinePrefs == {<<None, <<>> >>, <<sMamak, <<sMamak>> >>,
                 <<sWestern, <<sWestern, sMalay>> >>, <<sMalay, <<>> >>}

AllPreferences ==
    {[cuisine |-> c[1], cuisines |-> c[2], max_budget |-> b, budget_level |-> l,
      meal_type |-> m, max_travel |-> t, halal_pref |-> h, location_pref |-> loc] :
        c \in CuisinePrefs, b \in {NaNNum, <<20>>, <<40>>},
        l \in {None, sCheap, sExpensive}, m \in {sAnyCap, sDinner},
        t \in {NaNNum, <<10>>},
        h \in {pick_halal_pref(x) : x \in HalalTexts} \cup {sHalal},
        loc \in {sAnyCap, sInsideUTP, sOutsideUTP, sTronoh}}

\* how many preference fields say something
SetFields(p) ==
    Cardinality({f \in {"cuisines", "max_budget", "budget_level", "meal_type",
                        "max_travel", "halal_pref", "location_pref"} :
                    p[f] # NoPreference[f]}
                \cup (IF p.cuisine # None /\ p.cuisines = <<>> THEN {"cuisine"} ELSE {}))

PreferenceSets == {p \in AllPreferences : SetFields(p) <= MaxSetFields}

\* ---------------------------------------------------------- scoring engine
VARIABLES
    catalog,          \* the rows load_catalog reads from the CSV file
    preferences,      \* the preferences argument of score_restaurants
    only_open_today,  \* the only_open_today argument
    today,            \* the weekday the system clock shows
    ranked,           \* what the latest call of score_restaurants returned
    prevRanked,       \* what the call before it returned
    ncalls,           \* calls of score_restaurants so far: 0, 1, or 2 for more
    calledOn,         \* today_name as the latest call read it from the clock
    shown,            \* results_to_show of main
    pc                \* "idle", or "shown" once main has picked results_to_show

\* the state of the other parts of the program
VARIABLES
    opened,           \* the frame filter_open_today returned
    csv,              \* the rows of the CSV file as pandas reads them
    text,             \* the sentence handed to the pick_ functions
    picked,           \* what pick_budget and pick_budget_level made of it
    session,          \* st.session_state of the question-and-answer chatbot (app.py)
    event,            \* what the chatbot's latest run did with the user's action
    debug_mode        \* the "Show score breakdown" checkbox of the one-shot chatbot

others == <<opened, csv, text, picked, session, event, debug_mode>>

vars == <<catalog, preferences, only_open_today, today, ranked, prevRanked,
          ncalls, calledOn, shown, pc, others>>

\* the other parts at rest
OthersIdle ==
    /\ opened = <<>>
    /\ csv = <<>>
    /\ text = <<>>
    /\ picked = <<>>
    /\ session = <<>>
    /\ event = "none"
    /\ debug_mode = FALSE

\* "x or ''" is empty for None and for the empty string
Truthy(t) == t # None /\ t # <<>>

\* filter_open_today with the weekday searched for as it is spelled
filter_open_today_case_sensitive(df, today_name) ==
    SelectSeq(df, LAMBDA r : Contains(AsStr(r.days), today_name))

filter_open_today(df, today_name) ==
    SelectSeq(df, LAMBDA r : ContainsNoCase(AsStr(r.days), today_name))

ScoreCuisine(r, p) ==
    IF p.cuisines # <<>>
    THEN IF \E i \in 1..Len(p.cuisines) :
                ContainsNoCase(AsStr(r.cuisine), p.cuisines[i])
         THEN 40 ELSE 0
    ELSE IF Truthy(p.cuisine)
         THEN IF ContainsNoCase(AsStr(r.cuisine), p.cuisine) THEN 40 ELSE 0
         ELSE 0

\* ScoreBudget with "fully in budget" taken as max_spend < budget
ScoreBudgetStrict(r, p) ==
    IF p.max_budget = NaNNum THEN 0
    ELSE
      LET budget == p.max_budget[1]
          valid == NotNa(r.min_spend) /\ NotNa(r.max_spend)
          fully_in_budget == valid /\ r.max_spend[1] < budget
          partially_in_budget == valid /\ ~fully_in_budget /\ Le(r.min_spend, budget)
          over_budget == valid /\ ~fully_in_budget /\ ~partially_in_budget
          very_cheap == valid /\ 2 * r.max_spend[1] <= budget
          mid_price == valid /\ ~very_cheap /\ 5 * r.max_spend[1] <= 4 * budget
      IN  (IF fully_in_budget THEN 30 ELSE 0)
          + (IF partially_in_budget THEN 15 ELSE 0)
          - (IF over_budget THEN 10 ELSE 0)
          - (IF p.budget_level = sExpensive /\ very_cheap THEN 20 ELSE 0)
          - (IF p.budget_level = sExpensive /\ mid_price THEN 5 ELSE 0)

ScoreBudget(r, p) ==
    IF p.max_budget = NaNNum THEN 0
    ELSE
      LET budget == p.max_budget[1]
          valid == NotNa(r.min_spend) /\ NotNa(r.max_spend)
          fully_in_budget == valid /\ Le(r.max_spend, budget)
          partially_in_budget == valid /\ ~fully_in_budget /\ Le(r.min_spend, budget)
          over_budget == valid /\ ~fully_in_budget /\ ~partially_in_budget
          \* max_spend <= 0.5 * budget and max_spend <= 0.8 * budget, in whole numbers
          very_cheap == valid /\ 2 * r.max_spend[1] <= budget
          mid_price == valid /\ ~very_cheap /\ 5 * r.max_spend[1] <= 4 * budget
      IN  (IF fully_in_budget THEN 30 ELSE 0)
          + (IF partially_in_budget THEN 15 ELSE 0)
          - (IF over_budget THEN 10 ELSE 0)
          - (IF p.budget_level = sExpensive /\ very_cheap THEN 20 ELSE 0)
          - (IF p.budget_level = sExpensive /\ mid_price THEN 5 ELSE 0)

ScoreMeal(r, p) ==
    IF Truthy(p.meal_type) /\ Lower(p.meal_type) # sAny
       /\ ContainsNoCase(AsStr(r.dining_tag), p.meal_type)
    THEN 15 ELSE 0

ScoreTravel(r, p) ==
    IF p.max_travel # NaNNum /\ Le(r.travel_mins, p.max_travel[1]) THEN 10 ELSE 0

\* ScoreHalal applied whenever halal_pref is non-empty, whatever it says
ScoreHalalAnyPref(r, p) ==
    IF Truthy(p.halal_pref)
    THEN IF Contains(Lower(AsStr(r.halal)), sYes) THEN 10 ELSE -20
    ELSE 0

ScoreHalal(r, p) ==
    IF Truthy(p.halal_pref) /\ Lower(p.halal_pref) = sHalal
    THEN IF Contains(Lower(AsStr(r.halal)), sYes) THEN 10 ELSE -20
    ELSE 0

\* ScoreLocation with "Outside UTP" scored the way "Inside UTP" is
ScoreLocationOutsideAsInside(r, p) ==
    IF Truthy(p.location_pref) /\ Lower(p.location_pref) # sAny
    THEN LET mask_inside == ContainsNoCase(AsStr(r.location), sInsideUTP)
         IN  IF p.location_pref = sOutsideUTP \/ p.location_pref = sInsideUTP
             THEN IF mask_inside THEN 20 ELSE -10
             ELSE IF ContainsNoCase(AsStr(r.location), p.location_pref)
                  THEN 30 ELSE 0
    ELSE 0

ScoreLocation(r, p) ==
    IF Truthy(p.location_pref) /\ Lower(p.location_pref) # sAny
    THEN LET mask_inside == ContainsNoCase(AsStr(r.location), sInsideUTP)
         IN  IF p.location_pref = sOutsideUTP
             THEN IF mask_inside THEN -10 ELSE 20
             ELSE IF p.location_pref = sInsideUTP
                  THEN IF mask_inside THEN 20 ELSE -10
                  ELSE IF ContainsNoCase(AsStr(r.location), p.location_pref)
                       THEN 30 ELSE 0
    ELSE 0

ScoreRating(r) == (IF r.rating = NaNNum THEN 0 ELSE r.rating[1]) * 2

\* the sum with the rating column left out
TotalScoreNoRating(c, b, t, m, h, l, r) == c + b + t + m + h + l

\* the "score" column: the seven columns added up
TotalScore(c, b, t, m, h, l, r) == c + b + t + m + h + l + r

\* a row of the returned frame: the catalog row and its eight score columns
ScoredRow(r, p) ==
    LET c == ScoreCuisine(r, p)
        b == ScoreBudget(r, p)
        t == ScoreTravel(r, p)
        m == ScoreMeal(r, p)
        h == ScoreHalal(r, p)
        l == ScoreLocation(r, p)
        g == ScoreRating(r)
    IN  [name |-> r.name, cuisine |-> r.cuisine, min_spend |-> r.min_spend,
         max_spend |-> r.max_spend, dining_tag |-> r.dining_tag, halal |-> r.halal,
         days |-> r.days, travel_mins |-> r.travel_mins, location |-> r.location,
         rating |-> r.rating,
         score_cuisine |-> c, score_budget |-> b, score_travel |-> t,
         score_meal |-> m, score_halal |-> h, score_location |-> l,
         score_rating |-> g, score |-> TotalScore(c, b, t, m, h, l, g)]

\* ScoredFrame with the legacy engine's hard halal filter (app.py, line 105)
ScoredFrameHalalFilter(df, p, flag, today_name) ==
    IF df = <<>> THEN <<>>
    ELSE LET open == IF flag THEN filter_open_today(df, today_name) ELSE df
             kept == IF Truthy(p.halal_pref)
                        /\ SubSeq(Lower(p.halal_pref), 1, 5) = sHalal
                     THEN SelectSeq(open, LAMBDA r : ContainsNoCase(AsStr(r.halal), sYes))
                     ELSE open
         IN  [i \in 1..Len(kept) |-> ScoredRow(kept[i], p)]

\* the frame before the sort (lines 69-190); an empty frame is returned as it is
ScoredFrame(df, p, flag, today_name) ==
    IF df = <<>> THEN <<>>
    ELSE LET open == IF flag THEN filter_open_today(df, today_name) ELSE df
         IN  [i \in 1..Len(open) |-> ScoredRow(open[i], p)]

\* "key" is in the order sort_values("score", ascending=False) asks for
Descending(s) == \A i \in 1..(Len(s) - 1) : s[i].score >= s[i + 1].score

\* sort_values with the default kind="quicksort": the rows by descending score;
\* the order of rows with equal score is the sorting algorithm's, which is not
\* stable, so every arrangement of them is an outcome
SortOutcomes(frame) ==
    {s \in [1..Len(frame) -> Range(frame)] : Range(s) = Range(frame) /\ Descending(s)}

\* the frames score_restaurants may return
score_restaurants(df, p, flag, today_name) ==
    SortOutcomes(ScoredFrame(df, p, flag, today_name))

\* The first call score_restaurants(catalog, preferences, only_open_today).
ScoreCall ==
    /\ ncalls = 0
    /\ ranked' \in score_restaurants(catalog, preferences, only_open_today, today)
    /\ ncalls' = 1
    /\ calledOn' = today
    /\ UNCHANGED <<catalog, preferences, only_open_today, today, prevRanked, shown, pc>>
    /\ UNCHANGED others

\* A further call with the same arguments.  The sort is a function of the frame
\* it is given: a frame sorted before comes out in the same order again.
ScoreAgain ==
    /\ ncalls > 0
    /\ LET frame == ScoredFrame(catalog, preferences, only_open_today, today)
       IN  ranked' \in
             IF Range(ranked) = Range(frame) THEN {ranked}
             ELSE IF ncalls > 1 /\ Range(prevRanked) = Range(frame) THEN {prevRanked}
             ELSE score_restaurants(catalog, preferences, only_open_today, today)
    /\ prevRanked' = ranked
    /\ ncalls' = 2
    /\ calledOn' = today
    /\ UNCHANGED <<catalog, preferences, only_open_today, today, shown, pc>>
    /\ UNCHANGED others

\* midnight passes: datetime.today() names another weekday
ClockTick ==
    /\ today' \in Weekdays \ {today}
    /\ UNCHANGED <<catalog, preferences, only_open_today, ranked, prevRanked,
                   ncalls, calledOn, shown, pc>>
    /\ UNCHANGED others

Init ==
    /\ catalog \in Catalogs
    /\ preferences \in PreferenceSets
    /\ only_open_today \in BOOLEAN
    /\ today \in Weekdays
    /\ ranked = <<>>
    /\ prevRanked = <<>>
    /\ ncalls = 0
    /\ calledOn = None
    /\ shown = <<>>
    /\ pc = "idle"
    /\ OthersIdle

\* the engine applied once to every catalog, preference set, flag and weekday
Next == ScoreCall

Spec == Init /\ [][Next]_vars

\* where a row stands in a frame
IndexIn(frame, x) == CHOOSE i \in 1..Len(frame) : frame[i] = x

\* the outcome of the sort that leaves rows of equal score in the order they had
\* (what numpy's quicksort does on a short frame, by insertion)
StableSort(frame) ==
    CHOOSE s \in SortOutcomes(frame) :
        \A i, j \in 1..Len(s) :
            (i < j /\ s[i].score = s[j].score)
                => IndexIn(frame, s[i]) < IndexIn(frame, s[j])

\* the first call, on a build whose sort keeps equal scores in input order
ScoreCallStable ==
    /\ ncalls = 0
    /\ ranked' = StableSort(ScoredFrame(catalog, preferences, only_open_today, today))
    /\ ncalls' = 1
    /\ calledOn' = today
    /\ UNCHANGED <<catalog, preferences, only_open_today, today, prevRanked, shown, pc>>
    /\ UNCHANGED others

NextStable == ScoreCallStable

SpecStable == Init /\ [][NextStable]_vars

\* the engine called again and again while the clock runs
NextTwice == ScoreCall \/ ScoreAgain \/ ClockTick

SpecTwice == Init /\ [][NextTwice]_vars

\* -------------------------------------------------------- result selection
THRESHOLD_DIFF == 15
MaxShown == 3

Min(a, b) == IF a <= b THEN a ELSE b

\* DataFrame.head(n)
head(s, n) == SubSeq(s, 1, Min(n, Len(s)))

\* results_to_show without the cap of three rows
results_to_show_uncapped(rk) ==
    LET top_score == rk[1].score
        close_enough == SelectSeq(rk, LAMBDA r : r.score >= top_score - THRESHOLD_DIFF)
    IN  IF close_enough = <<>> THEN head(rk, 1) ELSE close_enough

\* results_to_show keeping only the rows less than THRESHOLD_DIFF below the top
results_to_show_strict(rk) ==
    LET top_score == rk[1].score
        close_enough == SelectSeq(rk, LAMBDA r : r.score > top_score - THRESHOLD_DIFF)
        head3 == head(close_enough, MaxShown)
    IN  IF head3 = <<>> THEN head(rk, 1) ELSE head3

\* main, "OPTIONAL RECS + THRESHOLD": the rows within THRESHOLD_DIFF of the top
\* score, at most three of them, and the top row should none be left
results_to_show(rk) ==
    LET top_score == rk[1].score
        close_enough == SelectSeq(rk, LAMBDA r : r.score >= top_score - THRESHOLD_DIFF)
        head3 == head(close_enough, MaxShown)
    IN  IF head3 = <<>> THEN head(rk, 1) ELSE head3

\* main picks the rows to show from a non-empty ranking
ShowResults ==
    /\ pc = "idle"
    /\ ranked # <<>>
    /\ shown' = results_to_show(ranked)
    /\ pc' = "shown"
    /\ UNCHANGED <<catalog, preferences, only_open_today, today, ranked, prevRanked,
                   ncalls, calledOn>>
    /\ UNCHANGED others

\* scores a ranking may hold
ScoreValues == {80, 66, 65, 64, 60, 40, -10}

\* the rankings of 1..MaxRanked rows, by descending score as score_restaurants
\* leaves them
RankedLists ==
    UNION {{[i \in 1..n |-> [name |-> i, score |-> f[i]]] :
              f \in {g \in [1..n -> ScoreValues] :
                       \A i \in 1..(n - 1) : g[i] >= g[i + 1]}}
           : n \in 1..MaxRanked}

InitSelect ==
    /\ ranked \in RankedLists
    /\ catalog = <<>>
    /\ preferences = NoPreference
    /\ only_open_today = TRUE
    /\ today = sMonday
    /\ prevRanked = <<>>
    /\ ncalls = 0
    /\ calledOn = None
    /\ shown = <<>>
    /\ pc = "idle"
    /\ OthersIdle

NextSelect == ShowResults

SpecSelect == InitSelect /\ [][NextSelect]_vars

\* ------------------------------------------------------------------ claims
\* the catalog row a row of the returned frame was made from
CatalogPart(x) ==
    Row(x.name, x.cuisine, x.min_spend, x.max_spend, x.dining_tag, x.halal, x.days,
        x.travel_mins, x.location, x.rating)

\* where a returned row stood in the catalog
CatalogIndex(x) == CHOOSE i \in 1..Len(catalog) : catalog[i] = CatalogPart(x)

RatingOrZero(x) == IF x.rating = NaNNum THEN 0 ELSE x.rating[1]

Called == ncalls > 0

\* C1: with halal_pref "Halal only", as pick_halal_pref makes it of a text that
\* holds "halal", every returned row whose halal cell contains "yes" has
\* score_halal = 10 and every other returned row has score_halal = -20.
C1_HalalOnlySubScore ==
    (Called /\ preferences.halal_pref = pick_halal_pref(sHalal)) =>
        \A i \in 1..Len(ranked) :
            ranked[i].score_halal =
                IF Contains(Lower(AsStr(ranked[i].halal)), sYes) THEN 10 ELSE -20

\* C2: in every returned row, score is the sum of the seven sub-scores.
C2_ScoreIsSumOfSubScores ==
    Called =>
        \A i \in 1..Len(ranked) :
            ranked[i].score =
                ranked[i].score_cuisine + ranked[i].score_budget
                + ranked[i].score_travel + ranked[i].score_meal
                + ranked[i].score_halal + ranked[i].score_location
                + ranked[i].score_rating

\* C2 witness: a returned row with three sub-scores at work
C2_Witness ==
    /\ Called
    /\ \E i \in 1..Len(ranked) :
          /\ ranked[i].score_cuisine = 40
          /\ ranked[i].score_budget = 15
          /\ ranked[i].score_rating = 10
          /\ ranked[i].score = 65

\* C3: the returned frame is in descending order of score, and rows of equal
\* score are in descending order of rating (checked where the sort keeps equal
\* scores in input order, so that only the missing rating key can break it).
C3_OrderedByScoreThenRating ==
    Called =>
        \A i, j \in 1..Len(ranked) :
            i < j =>
                /\ ranked[i].score >= ranked[j].score
                /\ (ranked[i].score = ranked[j].score
                      => RatingOrZero(ranked[i]) >= RatingOrZero(ranked[j]))

\* C4: rows of equal score and equal rating come out in their catalog order.
C4_StableOrdering ==
    Called =>
        \A i, j \in 1..Len(ranked) :
            (i < j /\ ranked[i].score = ranked[j].score
                   /\ ranked[i].rating = ranked[j].rating)
                => CatalogIndex(ranked[i]) < CatalogIndex(ranked[j])

\* C5: when every preference field has its no-preference value, every returned
\* row scores twice its rating (0 for a missing rating) and its six other
\* sub-scores are 0.
C5_NoPreferenceNeutrality ==
    (Called /\ preferences = NoPreference) =>
        \A i \in 1..Len(ranked) :
            /\ ranked[i].score = 2 * RatingOrZero(ranked[i])
            /\ ranked[i].score_cuisine = 0
            /\ ranked[i].score_budget = 0
            /\ ranked[i].score_travel = 0
            /\ ranked[i].score_meal = 0
            /\ ranked[i].score_halal = 0
            /\ ranked[i].score_location = 0

\* C5 witness: a rated row and an unrated row scored without preferences
C5_Witness ==
    /\ Called
    /\ preferences = NoPreference
    /\ \E i \in 1..Len(ranked) : ranked[i].rating = <<4>> /\ ranked[i].score = 8
    /\ \E i \in 1..Len(ranked) : ranked[i].rating = NaNNum /\ ranked[i].score = 0

\* the tiers of the claim and the sub-score each gives
InTier(t, x, budget) ==
    LET known == x.min_spend # NaNNum /\ x.max_spend # NaNNum
    IN  CASE t = "full" -> known /\ x.max_spend[1] <= budget
          [] t = "partial" -> known /\ x.max_spend[1] > budget /\ x.min_spend[1] <= budget
          [] t = "over" -> known /\ x.min_spend[1] > budget
          [] t = "unknown" -> ~known

TierScore(t) ==
    CASE t = "full" -> 30 [] t = "partial" -> 15 [] t = "over" -> -10 [] t = "unknown" -> 0

BudgetTiers(x, budget) ==
    {t \in {"full", "partial", "over", "unknown"} : InTier(t, x, budget)}

\* C6: with max_budget set and budget_level not "expensive", every returned row
\* is in exactly one tier and its budget sub-score is that tier's: +30 (both
\* spends known, max_spend <= budget), +15 (both known, max_spend > budget,
\* min_spend <= budget), -10 (both known, min_spend > budget), 0 (a spend missing).
C6_BudgetTiering ==
    (Called /\ preferences.max_budget # NaNNum
            /\ preferences.budget_level # sExpensive) =>
        \A i \in 1..Len(ranked) :
            LET tiers == BudgetTiers(ranked[i], preferences.max_budget[1])
            IN  /\ Cardinality(tiers) = 1
                /\ \A t \in tiers : ranked[i].score_budget = TierScore(t)

\* C6 witness: budget 20 against a row spending 10 to 20 (+30) and one spending
\* 15 to 25 (+15)
C6_Witness ==
    /\ Called
    /\ preferences.max_budget = <<20>>
    /\ preferences.budget_level # sExpensive
    /\ \E i \in 1..Len(ranked) :
          /\ ranked[i].min_spend = <<10>> /\ ranked[i].max_spend = <<20>>
          /\ ranked[i].score_budget = 30
    /\ \E i \in 1..Len(ranked) :
          /\ ranked[i].min_spend = <<15>> /\ ranked[i].max_spend = <<25>>
          /\ ranked[i].score_budget = 15

\* the scores of a list of rows
Scores(rk) == [i \in 1..Len(rk) |-> rk[i].score]

\* k of the claim: the rows whose score is at least top - 15
CloseCount(rk) == Cardinality({i \in 1..Len(rk) : rk[i].score >= rk[1].score - 15})

\* C7: of a non-empty ranking in descending order of score, main shows exactly
\* the first min(3, k) rows, k being the number of rows with score >= top - 15;
\* what it shows is never empty, never longer than 3 and starts with the top row.
C7_ResultSelection ==
    pc = "shown" =>
        /\ shown = SubSeq(ranked, 1, Min(3, CloseCount(ranked)))
        /\ shown # <<>>
        /\ Len(shown) <= 3
        /\ shown[1] = ranked[1]

\* C7 witness: four rows within 15 of the top, three of them shown
C7_Witness ==
    /\ pc = "shown"
    /\ Len(ranked) = 4
    /\ CloseCount(ranked) = 4
    /\ Len(shown) = 3

\* C8 as stated: of four rows scoring 80, 65, 60 and 40, the rows scoring 80, 65
\* and 60 are shown, in that order (40 left out, 60 kept).
C8_SelectorScenario ==
    (pc = "shown" /\ Scores(ranked) = <<80, 65, 60, 40>>) =>
        /\ Scores(shown) = <<80, 65, 60>>
        /\ shown = SubSeq(ranked, 1, 3)

\* C8 as amended: of four rows scoring 80, 65, 60 and 40, the rows scoring 80 and
\* 65 are shown, in that order; 60 and 40 are below 80 - 15 and are left out.
C8_SelectorScenarioAmended ==
    (pc = "shown" /\ Scores(ranked) = <<80, 65, 60, 40>>) =>
        /\ Scores(shown) = <<80, 65>>
        /\ shown = SubSeq(ranked, 1, 2)

\* C8 witness: the selection made of the scenario's ranking
C8_Witness ==
    /\ pc = "shown"
    /\ Scores(ranked) = <<80, 65, 60, 40>>
    /\ Len(shown) = 2

\* C9: two calls of score_restaurants with the same catalog, preferences and
\* only_open_today return the same frame, whatever the clock shows.
C9_SameArgumentsSameResult ==
    ncalls >= 2 => ranked = prevRanked

\* a weekday a catalog row is open on: its days text names it
OpenOn(r, day) == Contains(Lower(AsStr(r.days)), Lower(day))

\* C10: the returned frame holds each catalog row that is open today exactly
\* once (each catalog row, when only_open_today is off) and no other row,
\* whatever the preferences.
C10_ScoringKeepsEveryRow ==
    Called =>
        LET expected == IF only_open_today
                        THEN {r \in Range(catalog) : OpenOn(r, calledOn)}
                        ELSE Range(catalog)
        IN  /\ {CatalogPart(ranked[i]) : i \in 1..Len(ranked)} = expected
            /\ Len(ranked) = Cardinality(expected)

\* C10 witness: "Halal only" asked for, and a row that is not halal returned
\* beside one that is
C10_Witness ==
    /\ Called
    /\ only_open_today
    /\ preferences.halal_pref = sHalalOnly
    /\ Len(ranked) = 2
    /\ \E i \in 1..Len(ranked) : ranked[i].halal = <<"N","o">>
    /\ \E i \in 1..Len(ranked) : ranked[i].halal = <<"Y","e","s">>

\* the text of a location cell, lower-cased; a missing cell has no text
LocationText(x) == IF x.location = NaN THEN <<>> ELSE Lower(x.location)

\* C14: with location_pref "Inside UTP" a row whose location contains
\* "Inside UTP" has score_location 20 and every other row -10; with
\* "Outside UTP" a row that is not inside has 20 and a row inside -10; with
\* another area a row whose location contains the area has 30 and every other
\* row 0; with "Any" or no preference every row has 0.
C14_LocationScoring ==
    Called =>
        \A i \in 1..Len(ranked) :
            LET lp == preferences.location_pref
                inside == Contains(LocationText(ranked[i]), Lower(sInsideUTP))
            IN  ranked[i].score_location =
                    CASE lp = sInsideUTP -> IF inside THEN 20 ELSE -10
                      [] lp = sOutsideUTP -> IF inside THEN -10 ELSE 20
                      [] lp = sAnyCap \/ lp = <<>> -> 0
                      [] OTHER -> IF Contains(LocationText(ranked[i]), Lower(lp))
                                  THEN 30 ELSE 0

\* C14 witness: "Outside UTP" asked for, a row inside the campus at -10 beside
\* a row in Tronoh at 20
C14_Witness ==
    /\ Called
    /\ preferences.location_pref = sOutsideUTP
    /\ \E i \in 1..Len(ranked) :
           ranked[i].location = sInsideUTP /\ ranked[i].score_location = -10
    /\ \E i \in 1..Len(ranked) :
           ranked[i].location = sTronoh /\ ranked[i].score_location = 20

\* C14 witness for a named area: Tronoh asked for, a row there at 30 beside a
\* row elsewhere at 0
C14_WitnessArea ==
    /\ Called
    /\ preferences.location_pref = sTronoh
    /\ \E i \in 1..Len(ranked) :
           ranked[i].location = sTronoh /\ ranked[i].score_location = 30
    /\ \E i \in 1..Len(ranked) :
           ranked[i].location = sInsideUTP /\ ranked[i].score_location = 0

\* ---------------------------------------------------- availability filter
sWednesday == <<"W","e","d","n","e","s","d","a","y">>

\* the weekday names the clock may give in the filter's specification
FilterDays == Weekdays \cup {sWednesday}

\* one call of filter_open_today on the loaded catalog
FilterCall ==
    /\ pc = "idle"
    /\ opened' = filter_open_today(catalog, today)
    /\ pc' = "filtered"
    /\ UNCHANGED <<catalog, preferences, only_open_today, today, ranked, prevRanked,
                   ncalls, calledOn, shown>>
    /\ UNCHANGED <<csv, text, picked, session, event, debug_mode>>

InitFilter ==
    /\ catalog \in Catalogs
    /\ preferences = NoPreference
    /\ only_open_today = TRUE
    /\ today \in FilterDays
    /\ ranked = <<>>
    /\ prevRanked = <<>>
    /\ ncalls = 0
    /\ calledOn = None
    /\ shown = <<>>
    /\ pc = "idle"
    /\ OthersIdle

NextFilter == FilterCall

SpecFilter == InitFilter /\ [][NextFilter]_vars

\* a row has a days text that names the weekday, in whatever case
NamesDay(r, day) ==
    /\ r.days # NaN
    /\ r.days # <<>>
    /\ \E i \in 1..Len(r.days) :
          /\ i + Len(day) - 1 <= Len(r.days)
          /\ \A k \in 1..Len(day) : LowerChar(r.days[i + k - 1]) = LowerChar(day[k])

\* where a row stands in the catalog
PlaceOf(r) == CHOOSE i \in 1..Len(catalog) : catalog[i] = r

C11_WitnessOrder ==
    /\ pc = "filtered"
    /\ today = sMonday
    /\ catalog = <<RowB, RowA>>
    /\ opened = <<RowB, RowA>>

\* ------------------------------------------------------ budget extraction
sMedium == <<"m","e","d","i","u","m">>
sRm == <<"r","m">>
sMin == <<"m","i","n">>
sRinggit == <<"r","i","n","g","g","i","t">>

\* the three levels in the order the dictionary lists them
BudgetLevels == <<sCheap, sMedium, sExpensive>>

\* BUDGET_SYNONYMS: the trigger phrases of each level
BUDGET_SYNONYMS(level) ==
    CASE level = sCheap ->
           <<<<"c","h","e","a","p">>,
             <<"m","u","r","a","h">>,
             <<"b","a","j","e","t">>,
             <<"b","u","d","g","e","t"," ","s","i","k","i","t">>,
             <<"t","a","k","n","a","k"," ","m","a","h","a","l">>,
             <<"t","a","k"," ","n","a","k"," ","m","a","h","a","l">>,
             <<"n","o","t"," ","e","x","p","e","n","s","i","v","e">>,
             <<"j","i","m","a","t">>,
             <<"l","o","w"," ","b","u","d","g","e","t">>,
             <<"a","f","f","o","r","d","a","b","l","e">>,
             <<"e","k","o","n","o","m","i">>,
             <<"r","a","h","m","a","h">>>>
      [] level = sMedium ->
           <<<<"m","e","d","i","u","m">>,
             <<"a","v","e","r","a","g","e">>,
             <<"s","e","d","e","r","h","a","n","a">>,
             <<"m","i","d","-","r","a","n","g","e">>,
             <<"m","i","d"," ","r","a","n","g","e">>,
             <<"n","o","r","m","a","l"," ","p","r","i","c","e">>,
             <<"b","i","a","s","a">>,
             <<"r","e","a","s","o","n","a","b","l","e">>>>
      [] level = sExpensive ->
           <<<<"e","x","p","e","n","s","i","v","e">>,
             <<"m","a","h","a","l">>,
             <<"h","i","g","h"," ","e","n","d">>,
             <<"m","a","h","a","l"," ","s","i","k","i","t">>,
             <<"p","r","e","m","i","u","m">>,
             <<"l","u","x","u","r","y">>,
             <<"b","o","u","j","e","e">>>>

\* BUDGET_VALUES, in RM
BUDGET_VALUES(level) ==
    CASE level = sCheap -> 10
      [] level = sMedium -> 15
      [] level = sExpensive -> 25

\* the bound words of the pattern nearby_match
NearbyWords ==
    <<<<"u","n","d","e","r">>,
      <<"b","e","l","o","w">>,
      <<"b","a","w","a","h">>,
      <<"m","a","x">>,
      <<"b","u","d","g","e","t">>>>

\* the bound words of the pattern more_malay
MoreMalayWords ==
    <<<<"b","a","w","a","h">>,
      <<"t","a","k","n","a","k"," ","l","e","b","i","h">>,
      <<"t","a","k"," ","n","a","k"," ","l","e","b","i","h">>,
      <<"j","a","n","g","a","n"," ","l","e","b","i","h">>,
      <<"a","r","o","u","n","d">>,
      <<"s","e","k","i","t","a","r">>>>

Digits == <<"0","1","2","3","4","5","6","7","8","9">>
IsDigit(c) == \E i \in 1..Len(Digits) : Digits[i] = c
DigitVal(c) == (CHOOSE i \in 1..Len(Digits) : Digits[i] = c) - 1
\* \s, as far as the texts hold white space
IsSpace(c) == c = " "
\* \w on a lower-cased text
IsWordChar(c) ==
    \/ IsDigit(c)
    \/ c = "_"
    \/ \E i \in 1..Len(LowerChars) : LowerChars[i] = c

\* the word w stands in t from position i on
At(t, i, w) == i >= 1 /\ i + Len(w) - 1 <= Len(t) /\ SubSeq(t, i, i + Len(w) - 1) = w

\* \s* from position i: the first position that holds no white space
RECURSIVE SkipSpaces(_, _)
SkipSpaces(t, i) ==
    IF i <= Len(t) /\ IsSpace(t[i]) THEN SkipSpaces(t, i + 1) ELSE i

\* \d+ from position i, taken as far as it goes: the position after the run
RECURSIVE DigitsEnd(_, _)
DigitsEnd(t, i) ==
    IF i <= Len(t) /\ IsDigit(t[i]) THEN DigitsEnd(t, i + 1) ELSE i

\* float(...) of the digits t[i..j-1], a whole number
RECURSIVE NumberAt(_, _, _)
NumberAt(t, i, j) ==
    IF j <= i THEN 0 ELSE NumberAt(t, i, j - 1) * 10 + DigitVal(t[j - 1])

\* \b between positions i-1 and i
WordBoundary(t, i) ==
    LET before == i - 1 >= 1 /\ i - 1 <= Len(t) /\ IsWordChar(t[i - 1])
        after == i >= 1 /\ i <= Len(t) /\ IsWordChar(t[i])
    IN  before # after

\* the least position of a set of positions, 0 for none (re.search takes the
\* leftmost match)
Leftmost(S) == IF S = {} THEN 0 ELSE CHOOSE i \in S : \A j \in S : i <= j

\* the first level one of whose trigger phrases the text contains, None for none
RECURSIVE FirstLevelFrom(_, _)
FirstLevelFrom(t, k) ==
    IF k > Len(BudgetLevels) THEN None
    ELSE LET syns == BUDGET_SYNONYMS(BudgetLevels[k])
         IN  IF \E i \in 1..Len(syns) : Contains(t, syns[i])
             THEN BudgetLevels[k]
             ELSE FirstLevelFrom(t, k + 1)

\* "\s*(rm)?\s*" from position j: the position where the number has to start
AfterOptRm(t, j) ==
    LET a == SkipSpaces(t, j)
    IN  IF At(t, a, sRm) THEN SkipSpaces(t, a + 2) ELSE a

\* the number a match of "<word>\s*(rm)?\s*(\d+)" starting at i captures
\* (texts hold whole numbers only, so the optional fraction never matches)
BoundNumber(t, i, words) ==
    LET w == CHOOSE k \in 1..Len(words) : At(t, i, words[k])
        d == AfterOptRm(t, i + Len(words[w]))
    IN  NumberAt(t, d, DigitsEnd(t, d))

\* r"rm\s*(\d+)" (line 309): the captured number of the leftmost match
rm_match(t) ==
    LET S == {i \in 1..Len(t) :
                 /\ At(t, i, sRm)
                 /\ DigitsEnd(t, SkipSpaces(t, i + 2)) > SkipSpaces(t, i + 2)}
        i == Leftmost(S)
        d == SkipSpaces(t, i + 2)
    IN  IF i = 0 THEN <<>> ELSE <<NumberAt(t, d, DigitsEnd(t, d))>>

\* r"(under|below|bawah|max|budget)\s*(rm)?\s*(\d+(?:\.\d+)?)\b(?!\s*(min|mins|
\* minute|minutes))" (lines 313-314): the number has to end at a word boundary
\* and must not be followed by a word of minutes
nearby_match(t) ==
    LET S == {i \in 1..Len(t) :
                 \E k \in 1..Len(NearbyWords) :
                     /\ At(t, i, NearbyWords[k])
                     /\ LET d == AfterOptRm(t, i + Len(NearbyWords[k]))
                            e == DigitsEnd(t, d)
                        IN  /\ e > d
                            /\ WordBoundary(t, e)
                            /\ ~At(t, SkipSpaces(t, e), sMin)}
        i == Leftmost(S)
    IN  IF i = 0 THEN <<>> ELSE <<BoundNumber(t, i, NearbyWords)>>

\* r"(bawah|taknak lebih|tak nak lebih|jangan lebih|around|sekitar)\s*(rm)?\s*
\* (\d+)" (line 318)
more_malay(t) ==
    LET S == {i \in 1..Len(t) :
                 \E k \in 1..Len(MoreMalayWords) :
                     /\ At(t, i, MoreMalayWords[k])
                     /\ LET d == AfterOptRm(t, i + Len(MoreMalayWords[k]))
                        IN  DigitsEnd(t, d) > d}
        i == Leftmost(S)
    IN  IF i = 0 THEN <<>> ELSE <<BoundNumber(t, i, MoreMalayWords)>>

\* r"\b(\d+(?:\.\d+)?)\b\s*(ringgit)\b" (line 322)
ringgit_match(t) ==
    LET S == {i \in 1..Len(t) :
                 /\ WordBoundary(t, i)
                 /\ IsDigit(t[i])
                 /\ LET e == DigitsEnd(t, i)
                        r == SkipSpaces(t, e)
                    IN  /\ WordBoundary(t, e)
                        /\ At(t, r, sRinggit)
                        /\ WordBoundary(t, r + Len(sRinggit))}
        i == Leftmost(S)
    IN  IF i = 0 THEN <<>> ELSE <<NumberAt(t, i, DigitsEnd(t, i))>>

\* pick_budget with the "rm<number>" pattern tried before the trigger phrases
pick_budget_rm_first(txt) ==
    LET t == Lower(txt)
        level == FirstLevelFrom(t, 1)
    IN  IF rm_match(t) # <<>> THEN rm_match(t)
        ELSE IF level # None THEN <<BUDGET_VALUES(level)>>
        ELSE IF nearby_match(t) # <<>> THEN nearby_match(t)
        ELSE IF more_malay(t) # <<>> THEN more_malay(t)
        ELSE IF ringgit_match(t) # <<>> THEN ringgit_match(t)
        ELSE <<>>

\* pick_budget (lines 302-326): <<n>> for the number n, <<>> for None
pick_budget(txt) ==
    LET t == Lower(txt)
        level == FirstLevelFrom(t, 1)
    IN  IF level # None THEN <<BUDGET_VALUES(level)>>
        ELSE IF rm_match(t) # <<>> THEN rm_match(t)
        ELSE IF nearby_match(t) # <<>> THEN nearby_match(t)
        ELSE IF more_malay(t) # <<>> THEN more_malay(t)
        ELSE IF ringgit_match(t) # <<>> THEN ringgit_match(t)
        ELSE <<>>

\* r"(?:rm\s*|budget\s*|under\s*|below\s*)?(\d+)" (line 293): whatever prefix
\* the leftmost match takes, the captured number is the first run of digits of
\* the text
m_num(t) ==
    LET S == {i \in 1..Len(t) : IsDigit(t[i])}
        d == Leftmost(S)
    IN  IF d = 0 THEN <<>> ELSE <<NumberAt(t, d, DigitsEnd(t, d))>>

\* pick_budget_level (lines 287-299)
pick_budget_level(txt) ==
    LET t == Lower(txt)
        level == FirstLevelFrom(t, 1)
    IN  IF level # None THEN level
        ELSE IF m_num(t) # <<>> /\ m_num(t)[1] >= 30 THEN sExpensive
        ELSE None

\* sentences a user may type, as far as the budget extraction reads them: an
\* opening, a middle and an ending, each of which may be missing
TextOpenings ==
    {<<>>,
     <<"C","h","e","a","p"," ">>,
     <<"n","o","t"," ","e","x","p","e","n","s","i","v","e"," ">>,
     <<"m","a","h","a","l"," ">>,
     <<"m","e","d","i","u","m"," ">>}
TextMiddles ==
    {<<>>,
     <<"R","M","2","0">>,
     <<"r","m"," ","3","5">>,
     <<"u","n","d","e","r"," ","3","0">>,
     <<"u","n","d","e","r"," ","1","0"," ","m","i","n","s">>,
     <<"b","a","w","a","h"," ","1","0"," ","m","i","n">>,
     <<"b","u","d","g","e","t"," ","r","m","1","5">>,
     <<"m","a","x"," ","4","0">>,
     <<"s","e","k","i","t","a","r"," ","1","2">>,
     <<"f","a","r","m"," ","5">>}
TextEndings ==
    {<<>>,
     <<" ","4","0"," ","r","i","n","g","g","i","t">>,
     <<" ","5"," ","m","i","n","s">>,
     <<" ","5","0","r","i","n","g","g","i","t">>,
     <<" ","r","m","5","0">>}
BudgetTexts == {a \o b \o c : a \in TextOpenings, b \in TextMiddles, c \in TextEndings}

\* parse_one_shot, as far as the budget goes (lines 491-492)
ParseBudget ==
    /\ pc = "idle"
    /\ picked' = [max_budget |-> pick_budget(text),
                  budget_level |-> pick_budget_level(text)]
    /\ pc' = "picked"
    /\ UNCHANGED <<catalog, preferences, only_open_today, today, ranked, prevRanked,
                   ncalls, calledOn, shown>>
    /\ UNCHANGED <<opened, csv, text, session, event, debug_mode>>

InitParse ==
    /\ catalog = <<>>
    /\ preferences = NoPreference
    /\ only_open_today = TRUE
    /\ today = sMonday
    /\ ranked = <<>>
    /\ prevRanked = <<>>
    /\ ncalls = 0
    /\ calledOn = None
    /\ shown = <<>>
    /\ pc = "idle"
    /\ opened = <<>>
    /\ csv = <<>>
    /\ text \in BudgetTexts
    /\ picked = <<>>
    /\ session = <<>>
    /\ event = "none"
    /\ debug_mode = FALSE

NextParse == ParseBudget

SpecParse == InitParse /\ [][NextParse]_vars

\* ------------------------------------------------- claims on the extraction
Parsed == pc = "picked"

\* the text holds a trigger phrase of the level
HasLevelWord(t, level) ==
    \E i \in 1..Len(BUDGET_SYNONYMS(level)) : Contains(t, BUDGET_SYNONYMS(level)[i])

\* the rules of the claim: does the rule match the text, and with what value
RuleMatches(n, t) ==
    CASE n = 1 -> \E k \in 1..Len(BudgetLevels) : HasLevelWord(t, BudgetLevels[k])
      [] n = 2 -> rm_match(t) # <<>>
      [] n = 3 -> nearby_match(t) # <<>> \/ more_malay(t) # <<>>
      [] n = 4 -> ringgit_match(t) # <<>>

RuleValue(n, t) ==
    CASE n = 1 -> IF HasLevelWord(t, sCheap) THEN <<10>>
                  ELSE IF HasLevelWord(t, sMedium) THEN <<15>> ELSE <<25>>
      [] n = 2 -> rm_match(t)
      [] n = 3 -> IF nearby_match(t) # <<>> THEN nearby_match(t) ELSE more_malay(t)
      [] n = 4 -> ringgit_match(t)

C12_WitnessRm ==
    /\ Parsed
    /\ RuleMatches(2, Lower(text)) /\ RuleMatches(3, Lower(text))
    /\ nearby_match(Lower(text)) = <<30>>
    /\ picked.max_budget = <<50>>

C12_WitnessBound ==
    /\ Parsed
    /\ RuleMatches(3, Lower(text)) /\ RuleMatches(4, Lower(text))
    /\ ringgit_match(Lower(text)) = <<40>>
    /\ picked.max_budget = <<30>>

C12_WitnessNone ==
    /\ Parsed
    /\ text # <<>>
    /\ picked.max_budget = <<>>

\* the numbers of a text: the value of every full run of digits
NumbersIn(t) ==
    {NumberAt(t, i, DigitsEnd(t, i)) :
        i \in {j \in 1..Len(t) : IsDigit(t[j]) /\ (j = 1 \/ ~IsDigit(t[j - 1]))}}

\* C13: for a text that holds no trigger phrase of a level, pick_budget_level
\* returns "expensive" if a number of 30 or more stands anywhere in the text,
\* and None otherwise.
C13_LevelFallback ==
    (Parsed /\ ~RuleMatches(1, Lower(text))) =>
        picked.budget_level =
            IF \E n \in NumbersIn(Lower(text)) : n >= 30 THEN sExpensive ELSE None

\* ----------------------------------------------------------- catalog loader
\* pd.read_csv: an empty cell is read as NaN, any other text is kept as it is
\* written, white space included (the other default NA markers, "NA", "null"
\* and the like, are not among the cells below)
read_cell(raw) == IF raw = <<>> THEN NaN ELSE raw

\* pd.to_numeric(errors="coerce") of one cell: the number, NaN for a missing
\* cell and for a text that is no number
to_numeric(cell) ==
    IF cell # NaN /\ \A i \in 1..Len(cell) : IsDigit(cell[i])
    THEN <<NumberAt(cell, 1, Len(cell) + 1)>>
    ELSE NaNNum

\* the frame read_csv makes of the file, with the numeric columns converted
\* (lines 31-50)
ConvertedRow(raw) ==
    Row(read_cell(raw.name), read_cell(raw.cuisine),
        to_numeric(read_cell(raw.min_spend)), to_numeric(read_cell(raw.max_spend)),
        read_cell(raw.dining_tag), read_cell(raw.halal), read_cell(raw.days),
        to_numeric(read_cell(raw.travel_mins)), read_cell(raw.location),
        to_numeric(read_cell(raw.rating)))

\* str.strip()
RECURSIVE Strip(_)
Strip(s) ==
    IF s = <<>> THEN s
    ELSE IF IsSpace(s[1]) THEN Strip(Tail(s))
    ELSE IF IsSpace(s[Len(s)]) THEN Strip(SubSeq(s, 1, Len(s) - 1))
    ELSE s

\* load_catalog (lines 29-54): dropna(subset=["name"]) drops the rows whose
\* name is NaN
load_catalog(file) ==
    SelectSeq([i \in 1..Len(file) |-> ConvertedRow(file[i])], LAMBDA r : r.name # NaN)

\* cells a CSV file may hold
RawNames == {<<"A">>, <<>>, <<" "," ">>, <<" ","B"," ">>}
RawSpends == {<<"1","0">>, <<"R","M","5">>, <<>>}
RawTravels == {<<"5">>, <<"6"," ","m","i","n","s">>}

RawRows ==
    {[name |-> n, cuisine |-> sMamak, min_spend |-> lo, max_spend |-> <<"2","0">>,
      dining_tag |-> sDinner, halal |-> sYes, days |-> sMonday, travel_mins |-> t,
      location |-> sTronoh, rating |-> <<"4">>] :
        n \in RawNames, lo \in RawSpends, t \in RawTravels}

CsvFiles ==
    UNION {[1..n -> RawRows] : n \in 0..MaxRows}

LoadCatalog ==
    /\ pc = "idle"
    /\ catalog' = load_catalog(csv)
    /\ pc' = "loaded"
    /\ UNCHANGED <<preferences, only_open_today, today, ranked, prevRanked,
                   ncalls, calledOn, shown>>
    /\ UNCHANGED others

InitLoad ==
    /\ catalog = <<>>
    /\ preferences = NoPreference
    /\ only_open_today = TRUE
    /\ today = sMonday
    /\ ranked = <<>>
    /\ prevRanked = <<>>
    /\ ncalls = 0
    /\ calledOn = None
    /\ shown = <<>>
    /\ pc = "idle"
    /\ opened = <<>>
    /\ csv \in CsvFiles
    /\ text = <<>>
    /\ picked = <<>>
    /\ session = <<>>
    /\ event = "none"
    /\ debug_mode = FALSE

NextLoad == LoadCatalog

SpecLoad == InitLoad /\ [][NextLoad]_vars

\* what the claim wants of a numeric cell: its number if it parses, else null
ParsedOrNull(cell) ==
    IF cell # <<>> /\ \A i \in 1..Len(cell) : IsDigit(cell[i])
    THEN <<NumberAt(cell, 1, Len(cell) + 1)>>
    ELSE NaNNum

\* C15: load_catalog drops every row whose name is null or is empty once
\* white space is trimmed and keeps every other row, in the file's order; a
\* numeric cell that does not parse becomes null and its row stays.
C15_LoaderKeepsNamedRows ==
    pc = "loaded" =>
        LET named == SelectSeq(csv, LAMBDA raw : Strip(raw.name) # <<>>)
        IN  /\ Len(catalog) = Len(named)
            /\ \A i \in 1..Len(catalog) :
                  /\ catalog[i].name = named[i].name
                  /\ catalog[i].min_spend = ParsedOrNull(named[i].min_spend)
                  /\ catalog[i].max_spend = ParsedOrNull(named[i].max_spend)
                  /\ catalog[i].travel_mins = ParsedOrNull(named[i].travel_mins)
                  /\ catalog[i].rating = ParsedOrNull(named[i].rating)

\* ------------------------------------------------ legacy engine (app.py)
\* (preferences.get(key) or "").strip()
LegacyText(x) == IF x = None THEN <<>> ELSE Strip(x)

\* str.startswith
StartsWith(s, prefix) == Len(s) >= Len(prefix) /\ SubSeq(s, 1, Len(prefix)) = prefix

\* halal_pref.lower().startswith("halal")
LegacyHalalOnly(p) == StartsWith(Lower(LegacyText(p.halal_pref)), sHalal)

\* steps 1-4, 6 and 7: what the row adds to its score apart from the halal step
LegacyScoreOther(r, p) ==
    LET cuisine_pref == LegacyText(p.cuisine)
        meal_type == LegacyText(p.meal_type)
        location_pref == LegacyText(p.location_pref)
    IN  (IF cuisine_pref # <<>> /\ ContainsNoCase(AsStr(r.cuisine), cuisine_pref)
         THEN 40 ELSE 0)
      + (IF NotNa(p.max_budget)
            /\ (Le(r.min_spend, p.max_budget[1]) \/ Le(r.max_spend, p.max_budget[1]))
         THEN 30 ELSE 0)
      + (IF meal_type # <<>> /\ Lower(meal_type) # sAny
            /\ ContainsNoCase(AsStr(r.dining_tag), meal_type)
         THEN 15 ELSE 0)
      + (IF NotNa(p.max_travel) /\ Le(r.travel_mins, p.max_travel[1])
         THEN 15 ELSE 0)
      + (IF location_pref # <<>> /\ Lower(location_pref) # sAny
            /\ ContainsNoCase(AsStr(r.location), location_pref)
         THEN 5 ELSE 0)
      + (IF r.rating = NaNNum THEN 0 ELSE r.rating[1]) * 2

\* step 5 without the filter: every row stays
LegacyHalalFilterNone(frame, p) == frame

\* step 5, the filter (app.py line 105): with a halal preference only the rows
\* whose halal cell contains "yes" stay
LegacyHalalFilter(frame, p) ==
    IF LegacyHalalOnly(p)
    THEN SelectSeq(frame, LAMBDA r : ContainsNoCase(AsStr(r.halal), sYes))
    ELSE frame

\* step 5, the boost (app.py line 106)
LegacyHalalBoost(p) == IF LegacyHalalOnly(p) THEN 5 ELSE 0

\* a row of the frame the legacy engine returns: the catalog row and its score
LegacyRow(r, p) ==
    [name |-> r.name, cuisine |-> r.cuisine, min_spend |-> r.min_spend,
     max_spend |-> r.max_spend, dining_tag |-> r.dining_tag, halal |-> r.halal,
     days |-> r.days, travel_mins |-> r.travel_mins, location |-> r.location,
     rating |-> r.rating,
     score |-> LegacyScoreOther(r, p) + LegacyHalalBoost(p)]

\* sort_values(by=["score", "rating"], ascending=[False, False]): a row goes
\* before another with a lower score, or the same score and a lower rating; a
\* missing rating goes last
LegacyBefore(a, b) ==
    \/ a.score > b.score
    \/ /\ a.score = b.score
       /\ a.rating # NaNNum
       /\ (b.rating = NaNNum \/ a.rating[1] > b.rating[1])

\* the sort on several keys is stable: rows equal in both keep their order
LegacySort(frame) ==
    CHOOSE s \in [1..Len(frame) -> Range(frame)] :
        /\ Range(s) = Range(frame)
        /\ \A i, j \in 1..Len(s) :
              i < j => /\ ~LegacyBefore(s[j], s[i])
                       /\ (~LegacyBefore(s[i], s[j])
                              => IndexIn(frame, s[i]) < IndexIn(frame, s[j]))

\* score_restaurants of app.py (lines 54-119) and data_old.py
legacy_score_restaurants(df, p, flag, today_name) ==
    LET open == IF flag THEN filter_open_today(df, today_name) ELSE df
    IN  IF open = <<>> THEN <<>>
        ELSE LET kept == LegacyHalalFilter(open, p)
             IN  LegacySort([i \in 1..Len(kept) |-> LegacyRow(kept[i], p)])

\* one call of the legacy engine
LegacyCall ==
    /\ ncalls = 0
    /\ ranked' = legacy_score_restaurants(catalog, preferences, only_open_today, today)
    /\ ncalls' = 1
    /\ calledOn' = today
    /\ UNCHANGED <<catalog, preferences, only_open_today, today, prevRanked, shown, pc>>
    /\ UNCHANGED others

NextLegacy == LegacyCall

SpecLegacy == Init /\ [][NextLegacy]_vars

\* the halal cell of a row contains "yes", in whatever case
SaysYes(x) == x.halal # NaN /\ Contains(Lower(x.halal), sYes)

\* C17: in the legacy engine, when halal_pref starts with "halal", every
\* returned row has a halal cell containing "yes", every row with such a cell
\* that is open today (every such row of the catalog when the availability
\* filter is off) is returned, and each returned row scores 5 more than it
\* does without the halal preference.
C17_LegacyHalalFilter ==
    (Called /\ StartsWith(Lower(preferences.halal_pref), sHalal)) =>
        LET base == IF only_open_today
                    THEN {r \in Range(catalog) : OpenOn(r, calledOn)}
                    ELSE Range(catalog)
            indifferent == [preferences EXCEPT !.halal_pref = sDoesntMatter]
        IN  /\ \A i \in 1..Len(ranked) : SaysYes(ranked[i])
            /\ {CatalogPart(ranked[i]) : i \in 1..Len(ranked)} = {r \in base : SaysYes(r)}
            /\ \A i \in 1..Len(ranked) :
                  ranked[i].score =
                      LegacyRow(CatalogPart(ranked[i]), indifferent).score + 5

\* C17 witness: "Halal only" asked for; of a halal row and a row that is not,
\* both open today, only the first is returned, at 5 above its rating points
C17_Witness ==
    /\ Called
    /\ only_open_today
    /\ preferences = [NoPreference EXCEPT !.halal_pref = sHalalOnly]
    /\ catalog = <<RowB, RowA>>
    /\ Len(ranked) = 1
    /\ ranked[1].name = RowA.name
    /\ ranked[1].score = 13

\* ------------------------------------- question-and-answer chatbot (app.py)
MaxMessages == 16     \* messages of the chat log

\* QUESTIONS (lines 125-150); a bot text is held as one piece
QUESTIONS ==
    <<[key |-> "cuisine", question |-> <<"What cuisine are you craving?">>],
      [key |-> "max_budget", question |-> <<"What is your maximum budget per person?">>],
      [key |-> "meal_type", question |-> <<"Which meal are you planning for?">>],
      [key |-> "max_travel", question |-> <<"How many minutes are you willing to travel?">>],
      [key |-> "halal_pref", question |-> <<"Do you want only halal restaurants?">>],
      [key |-> "location_pref", question |-> <<"Any preferred area?">>]>>

Greeting == <<"Hi! I'm MakanSini.">>
GotIt == <<"Got it! Let me check the restaurants that match you...">>

BotMessage(t) == [role |-> "bot", text |-> t]
UserMessage(t) == [role |-> "user", text |-> t]

\* the keys init_session sets and reset_session deletes
SessionKeys == {"question_index", "answers", "done", "messages"}

\* st.session_state is a mapping from the keys it holds to their values
SessionDefault(k) ==
    CASE k = "question_index" -> 0
      [] k = "answers" -> <<>>
      [] k = "done" -> FALSE
      [] k = "messages" -> <<>>

\* init_session (lines 156-174): a missing key gets its default; an empty log
\* gets the greeting and the first question
init_session(ss) ==
    LET filled == [k \in DOMAIN ss \cup SessionKeys |->
                      IF k \in DOMAIN ss THEN ss[k] ELSE SessionDefault(k)]
    IN  IF filled.messages = <<>>
        THEN [filled EXCEPT !.messages =
                 <<BotMessage(Greeting), BotMessage(QUESTIONS[1].question)>>]
        ELSE filled

\* reset_session that leaves the chat log in place
reset_session_keeps_log(ss) ==
    [k \in DOMAIN ss \ {"question_index", "answers", "done"} |-> ss[k]]

\* reset_session (lines 177-180): the four keys are deleted
reset_session(ss) ==
    [k \in DOMAIN ss \ {"question_index", "answers", "done", "messages"} |-> ss[k]]

\* cuisine_exists (lines 340-347) on the loaded catalog
cuisine_exists(df, user_text) ==
    LET t == Strip(user_text)
    IN  IF t = <<>> THEN FALSE
        ELSE \E i \in 1..Len(df) : ContainsNoCase(AsStr(df[i].cuisine), t)

\* str.contains takes the typed text as a regular expression: a text with a
\* parenthesis that is never closed is no pattern and the call raises (the
\* answers below hold no other regex metacharacter)
RaisesAsPattern(t) ==
    \E i \in 1..Len(t) : t[i] = "(" /\ ~\E j \in (i + 1)..Len(t) : t[j] = ")"

\* is_number (lines 350-356) on answers that are words or whole numbers
is_number(t) == t # <<>> /\ \A i \in 1..Len(t) : IsDigit(t[i])

valid_meal_words ==
    <<<<"b","r","e","a","k","f","a","s","t">>, <<"l","u","n","c","h">>,
      <<"t","e","a"," ","t","i","m","e">>, <<"t","e","a","t","i","m","e">>,
      <<"d","i","n","n","e","r">>, <<"a","n","y">>>>

valid_halal_words ==
    <<<<"h","a","l","a","l">>, <<"o","n","l","y">>,
      <<"t","a","k"," ","k","i","s","a","h">>,
      <<"d","o","e","s","n","'","t"," ","m","a","t","t","e","r">>,
      <<"d","o","e","s","n","t"," ","m","a","t","t","e","r">>,
      <<"n","o"," ","p","r","e","f","e","r","e","n","c","e">>>>

valid_location_words ==
    <<<<"i","n","s","i","d","e"," ","u","t","p">>, <<"u","t","p">>,
      <<"t","r","o","n","o","h">>,
      <<"b","a","n","d","a","r"," ","u","n","i","v","e","r","s","i","t","i">>,
      <<"a","n","y">>, <<"n","o"," ","p","r","e","f","e","r","e","n","c","e">>,
      <<"t","a","k"," ","k","i","s","a","h">>>>

\* any(w in answer_low for w in words)
AnyWordIn(words, answer_low) == \E i \in 1..Len(words) : Contains(answer_low, words[i])

\* the validation of main (lines 416-486): does the answer pass for the key
AnswerValid(df, key, answer) ==
    CASE key = "cuisine" -> cuisine_exists(df, answer)
      [] key = "max_budget" -> ~(answer # <<>> /\ ~is_number(answer))
      [] key = "meal_type" -> AnyWordIn(valid_meal_words, Lower(answer))
      [] key = "max_travel" -> ~(answer # <<>> /\ ~is_number(answer))
      [] key = "halal_pref" -> AnyWordIn(valid_halal_words, Lower(answer))
      [] key = "location_pref" -> AnyWordIn(valid_location_words, Lower(answer))

\* the validation raises instead of giving a verdict
ValidationRaises(key, answer) ==
    key = "cuisine" /\ answer # <<>> /\ RaisesAsPattern(answer)

\* the bot's explanation of a rejected answer
Explanation(key) ==
    CASE key = "cuisine" -> <<"I couldn't find that cuisine in my list.">>
      [] key = "max_budget" -> <<"Please enter your budget as a number.">>
      [] key = "meal_type" -> <<"Please choose a meal.">>
      [] key = "max_travel" -> <<"Please enter travel time in minutes as a number.">>
      [] key = "halal_pref" -> <<"Please answer clearly.">>
      [] key = "location_pref" -> <<"Please choose a location.">>

\* a rejection that goes on to the next question all the same
RejectedAdvances(ss, key) ==
    [ss EXCEPT !.messages = Append(@, BotMessage(Explanation(key))),
               !.question_index = @ + 1]

\* a rejected answer: the explanation is appended and the run ends (st.rerun)
Rejected(ss, key) ==
    [ss EXCEPT !.messages = Append(@, BotMessage(Explanation(key)))]

\* an accepted answer that never ends the questioning
AcceptedNeverDone(ss, key, answer) ==
    LET next == ss.question_index + 1
    IN  [ss EXCEPT
            !.answers = [k \in DOMAIN @ \cup {key} |-> IF k = key THEN answer ELSE @[k]],
            !.question_index = next,
            !.messages = Append(@, BotMessage(IF next < Len(QUESTIONS)
                                              THEN QUESTIONS[next + 1].question
                                              ELSE GotIt))]

\* an accepted answer (lines 489-504): it is stored, the index moves on, and
\* either the next question or the closing message is appended
Accepted(ss, key, answer) ==
    LET next == ss.question_index + 1
    IN  [ss EXCEPT
            !.answers = [k \in DOMAIN @ \cup {key} |-> IF k = key THEN answer ELSE @[k]],
            !.question_index = next,
            !.done = IF next < Len(QUESTIONS) THEN @ ELSE TRUE,
            !.messages = Append(@, BotMessage(IF next < Len(QUESTIONS)
                                              THEN QUESTIONS[next + 1].question
                                              ELSE GotIt))]

\* what a run of main does with a typed text (lines 399-504), and its outcome
HandleOutcome(df, ss, user_input) ==
    LET q_idx == ss.question_index
        key == QUESTIONS[q_idx + 1].key
        answer == Strip(user_input)
    IN  IF q_idx >= Len(QUESTIONS) THEN "safety"
        ELSE IF ValidationRaises(key, answer) THEN "error"
        ELSE IF ~AnswerValid(df, key, answer) THEN "rejected"
        ELSE "accepted"

HandleInput(df, ss, user_input) ==
    LET logged == [ss EXCEPT !.messages = Append(@, UserMessage(user_input))]
        key == QUESTIONS[ss.question_index + 1].key
        outcome == HandleOutcome(df, ss, user_input)
    IN  CASE outcome = "safety" -> logged
          [] outcome = "error" -> logged
          [] outcome = "rejected" -> Rejected(logged, key)
          [] outcome = "accepted" -> Accepted(logged, key, Strip(user_input))

\* the chat input is drawn on every run
ChatInputShownAlways(ss) == TRUE

\* the chat input is drawn only while the questions last (lines 389-394)
ChatInputShown(ss) == ~ss.done

\* texts a user may type
UserInputs ==
    {sMamak, <<"1","0">>, <<" ","A","n","y"," ","h","a","l","a","l">>, <<":","(">>}

\* a run of main started by a typed text
SubmitAnswer ==
    /\ pc = "chat"
    /\ ChatInputShown(init_session(session))
    /\ Len(session.messages) + 2 <= MaxMessages
    /\ \E user_input \in UserInputs :
          /\ session' = HandleInput(catalog, init_session(session), user_input)
          /\ event' = HandleOutcome(catalog, init_session(session), user_input)
    /\ UNCHANGED <<catalog, preferences, only_open_today, today, ranked, prevRanked,
                   ncalls, calledOn, shown, pc>>
    /\ UNCHANGED <<opened, csv, text, picked, debug_mode>>

\* a run of main started by the Start Over button: reset_session deletes the
\* keys and reruns, and the rerun's init_session sets the session up again
StartOver ==
    /\ pc = "chat"
    /\ session' = init_session(reset_session(init_session(session)))
    /\ event' = "start_over"
    /\ UNCHANGED <<catalog, preferences, only_open_today, today, ranked, prevRanked,
                   ncalls, calledOn, shown, pc>>
    /\ UNCHANGED <<opened, csv, text, picked, debug_mode>>

\* a run of main started by neither: the page is drawn again
Refresh ==
    /\ pc = "chat"
    /\ session' = init_session(session)
    /\ event' = "refresh"
    /\ UNCHANGED <<catalog, preferences, only_open_today, today, ranked, prevRanked,
                   ncalls, calledOn, shown, pc>>
    /\ UNCHANGED <<opened, csv, text, picked, debug_mode>>

\* the first load of the page
InitChat ==
    /\ catalog = <<RowA, RowB>>
    /\ preferences = NoPreference
    /\ only_open_today = TRUE
    /\ today = sMonday
    /\ ranked = <<>>
    /\ prevRanked = <<>>
    /\ ncalls = 0
    /\ calledOn = None
    /\ shown = <<>>
    /\ pc = "chat"
    /\ opened = <<>>
    /\ csv = <<>>
    /\ text = <<>>
    /\ picked = <<>>
    /\ session = init_session(<<>>)
    /\ event = "none"
    /\ debug_mode = FALSE

NextChat == SubmitAnswer \/ StartOver \/ Refresh

SpecChat == InitChat /\ [][NextChat]_vars

C18_SessionInvariant ==
    /\ session.question_index \in 0..6
    /\ DOMAIN session.answers = {QUESTIONS[i].key : i \in 1..session.question_index}
    /\ session.done <=> session.question_index = 6
    /\ event # "safety"

\* C18 witness: all six questions answered
C18_Witness ==
    /\ event = "accepted"
    /\ session.question_index = 6
    /\ session.done
    /\ DOMAIN session.answers = {QUESTIONS[i].key : i \in 1..6}

\* C19: once done is true, a run leaves answers, question_index and the
\* message log as they are, unless it is the run of Start Over.
C19_DoneIgnoresInput ==
    [][session.done =>
          \/ event' = "start_over"
          \/ /\ session'.answers = session.answers
             /\ session'.question_index = session.question_index
             /\ session'.messages = session.messages
             /\ session'.done
      ]_vars

\* C19 witness: the page drawn again after the last answer
C19_Witness ==
    /\ session.done
    /\ event = "refresh"
    /\ Len(session.messages) >= 14

\* the session as the first load leaves it
InitialSession ==
    [question_index |-> 0, answers |-> <<>>, done |-> FALSE,
     messages |-> <<[role |-> "bot", text |-> Greeting],
                    [role |-> "bot", text |-> QUESTIONS[1].question]>>]

\* C20: Start Over, pressed in any state, leads to question_index 0, no
\* answers, done false and a message log of the greeting and the first question.
C20_StartOverResets ==
    [][event' = "start_over" => session' = InitialSession]_vars

\* C20 witness: Start Over has been pressed and the session is the initial one
C20_Witness ==
    /\ event = "start_over"
    /\ session.question_index = 0
    /\ session.answers = <<>>
    /\ ~session.done
    /\ Len(session.messages) = 2

\* ------------------------------------------- one-shot parsing (app_3.py)
\* the cuisines of CUISINE_SYNONYMS in the order the dictionary lists them
CuisineCategories ==
    <<<<"M","a","l","a","y">>, <<"C","h","i","n","e","s","e">>, <<"M","a","m","a","k">>,
      <<"I","n","d","i","a","n">>, <<"K","o","r","e","a","n">>,
      <<"J","a","p","a","n","e","s","e">>, <<"F","a","s","t"," ","F","o","o","d">>,
      <<"N","a","s","i"," ","C","a","m","p","u","r">>,
      <<"T","h","a","i","l","a","n","d">>, <<"A","r","a","b","i","c">>,
      <<"D","e","s","s","e","r","t">>, <<"B","e","v","e","r","a","g","e">>,
      <<"W","e","s","t","e","r","n">>, <<"I","n","d","o","n","e","s","i","a","n">>>>

\* CUISINE_SYNONYMS: the phrases of the k-th entry
CUISINE_SYNONYMS(k) ==
    CASE k = 1 ->  \* Malay
           <<<<"m","e","l","a","y","u">>,
             <<"m","a","s","a","k","a","n"," ","m","e","l","a","y","u">>,
             <<"n","a","s","i"," ","l","e","m","a","k">>,
             <<"l","a","u","k"," ","m","e","l","a","y","u">>,
             <<"l","a","u","k"," ","k","a","m","p","u","n","g">>,
             <<"k","a","m","p","u","n","g"," ","s","t","y","l","e">>,
             <<"m","a","s","a","k","a","n"," ","k","a","m","p","u","n","g">>,
             <<"a","y","a","m"," ","m","a","s","a","k"," ","m","e","r","a","h">>,
             <<"a","s","a","m"," ","p","e","d","a","s">>,
             <<"n","a","s","i"," ","g","o","r","e","n","g"," ","k","a","m","p","u","n","g">>,
             <<"i","k","a","n"," ","k","e","l","i">>,
             <<"i","k","a","n"," ","b","a","w","a","l">>, <<"s","a","m","b","a","l">>>>
      [] k = 2 ->  \* Chinese
           <<<<"c","i","n","a">>, <<"c","h","i","n","e","s","e">>,
             <<"c","h","a","r"," ","k","u","e","y"," ","t","e","o","w">>, <<"c","k","t">>,
             <<"d","i","m"," ","s","u","m">>, <<"w","a","n","t","a","n">>,
             <<"w","o","n","t","o","n">>, <<"c","l","a","y","p","o","t">>,
             <<"f","r","i","e","d"," ","r","i","c","e"," ","c","h","i","n","e","s","e">>,
             <<"k","o","n","g","f","u">>, <<"k","u","n","g"," ","f","u">>>>
      [] k = 3 ->  \* Mamak
           <<<<"m","a","m","a","k">>, <<"n","a","s","i"," ","k","a","n","d","a","r">>,
             <<"r","o","t","i"," ","c","a","n","a","i">>,
             <<"r","o","t","i"," ","t","e","l","u","r">>,
             <<"r","o","t","i"," ","t","a","m","p","a","l">>,
             <<"m","a","g","g","i"," ","g","o","r","e","n","g">>,
             <<"m","e","e"," ","g","o","r","e","n","g"," ","m","a","m","a","k">>,
             <<"t","e","h"," ","t","a","r","i","k">>,
             <<"n","a","s","i"," ","g","o","r","e","n","g"," ","m","a","m","a","k">>>>
      [] k = 4 ->  \* Indian
           <<<<"i","n","d","i","a","n">>, <<"i","n","d","i","a">>,
             <<"b","i","r","y","a","n","i">>, <<"b","r","i","y","a","n","i">>,
             <<"t","a","n","d","o","o","r","i">>, <<"n","a","a","n">>,
             <<"b","u","t","t","e","r"," ","c","h","i","c","k","e","n">>,
             <<"m","a","s","a","l","a">>, <<"d","h","a","l">>>>
      [] k = 5 ->  \* Korean
           <<<<"k","o","r","e","a","n">>, <<"k","o","r","e","a">>,
             <<"k","i","m","c","h","i">>, <<"r","a","m","y","e","o","n">>,
             <<"r","a","m","y","u","n">>, <<"t","t","e","o","k","b","o","k","k","i">>,
             <<"k","i","m","b","a","p">>, <<"j","a","j","a","n","g","m","y","e","o","n">>,
             <<"b","u","l","d","a","k">>>>
      [] k = 6 ->  \* Japanese
           <<<<"j","a","p","a","n","e","s","e">>, <<"j","a","p","a","n">>,
             <<"j","e","p","u","n">>, <<"s","u","s","h","i">>, <<"r","a","m","e","n">>,
             <<"d","o","n","b","u","r","i">>, <<"b","e","n","t","o">>,
             <<"t","e","m","p","u","r","a">>, <<"u","d","o","n">>>>
      [] k = 7 ->  \* Fast Food
           <<<<"k","f","c">>, <<"m","c","d">>, <<"m","c","D">>,
             <<"b","u","r","g","e","r"," ","k","i","n","g">>, <<"a","&","w">>,
             <<"t","e","x","a","s">>, <<"m","a","r","r","y","b","r","o","w","n">>,
             <<"p","i","z","z","a">>, <<"d","o","m","i","n","o","s">>,
             <<"s","u","b","w","a","y">>, <<"f","a","s","t"," ","f","o","o","d">>,
             <<"b","u","r","g","e","r">>>>
      [] k = 8 ->  \* Nasi Campur
           <<<<"n","a","s","i"," ","c","a","m","p","u","r">>,
             <<"l","a","u","k"," ","c","a","m","p","u","r">>,
             <<"m","i","x","e","d"," ","r","i","c","e">>,
             <<"e","c","o","n","o","m","y"," ","r","i","c","e">>,
             <<"k","e","d","a","i"," ","c","a","m","p","u","r">>,
             <<"n","a","s","i"," ","b","e","r","l","a","u","k">>>>
      [] k = 9 ->  \* Thailand
           <<<<"t","h","a","i">>, <<"t","o","m","y","a","m">>,
             <<"t","o","m"," ","y","a","m">>, <<"p","a","p","r","i","k">>,
             <<"p","a","d"," ","k","r","a"," ","p","a","o">>,
             <<"t","h","a","i"," ","f","o","o","d">>,
             <<"k","e","r","a","b","u"," ","m","a","g","g","i">>,
             <<"s","o","m","t","a","m">>>>
      [] k = 10 ->  \* Arabic
           <<<<"a","r","a","b">>, <<"a","r","a","b","i","c">>, <<"m","a","n","d","y">>,
             <<"m","a","n","d","i">>, <<"k","a","b","s","a","h">>,
             <<"k","e","b","a","b">>, <<"s","h","a","w","a","r","m","a">>,
             <<"h","u","m","m","u","s">>>>
      [] k = 11 ->  \* Dessert
           <<<<"d","e","s","s","e","r","t">>, <<"a","i","s","k","r","i","m">>,
             <<"i","c","e"," ","c","r","e","a","m">>, <<"c","e","n","d","o","l">>,
             <<"b","i","n","g","s","u">>, <<"k","e","k">>, <<"c","a","k","e">>,
             <<"b","r","o","w","n","i","e","s">>, <<"p","a","n","c","a","k","e">>>>
      [] k = 12 ->  \* Beverage
           <<<<"d","r","i","n","k">>, <<"b","e","v","e","r","a","g","e">>,
             <<"m","i","n","u","m">>, <<"c","o","f","f","e","e">>, <<"k","o","p","i">>,
             <<"t","e","a">>, <<"t","e","h">>, <<"m","i","l","k","s","h","a","k","e">>,
             <<"s","m","o","o","t","h","i","e">>, <<"f","r","a","p","p","e">>,
             <<"b","o","b","a">>, <<"b","u","b","b","l","e"," ","t","e","a">>,
             <<"n","g","o","p","i">>>>
      [] k = 13 ->  \* Western
           <<<<"w","e","s","t","e","r","n">>,
             <<"c","h","i","c","k","e","n"," ","c","h","o","p">>,
             <<"l","a","m","b"," ","c","h","o","p">>, <<"s","t","e","a","k">>,
             <<"f","r","i","e","s">>,
             <<"f","i","s","h"," ","a","n","d"," ","c","h","i","p","s">>,
             <<"p","a","s","t","a">>, <<"s","p","a","g","h","e","t","t","i">>,
             <<"c","a","r","b","o","n","a","r","a">>,
             <<"b","o","l","o","g","n","e","s","e">>, <<"l","a","s","a","g","n","a">>,
             <<"g","r","i","l","l","e","d"," ","c","h","i","c","k","e","n">>>>
      [] k = 14 ->  \* Indonesian
           <<<<"i","n","d","o">>, <<"g","e","p","u","k">>, <<"b","a","k","s","o">>,
             <<"p","e","n","y","e","t">>, <<"n","a","s","i"," ","p","a","d","a","n","g">>>>

\* the meals of MEALTYPE_SYNONYMS in the order the dictionary lists them
MealCategories ==
    <<<<"B","r","e","a","k","f","a","s","t">>, <<"L","u","n","c","h">>,
      <<"T","e","a"," ","T","i","m","e">>, <<"D","i","n","n","e","r">>>>

\* MEALTYPE_SYNONYMS: the phrases of the k-th entry
MEALTYPE_SYNONYMS(k) ==
    CASE k = 1 ->  \* Breakfast
           <<<<"p","a","g","i">>, <<"s","a","r","a","p","a","n">>,
             <<"b","f","a","s","t">>, <<"b","r","e","a","k","f","a","s","t">>,
             <<"b","r","e","a","k","i","e">>>>
      [] k = 2 ->  \* Lunch
           <<<<"t","e","n","g","a","h","a","r","i">>, <<"l","u","n","c","h">>,
             <<"a","f","t","e","r","n","o","o","n">>, <<"n","o","o","n">>>>
      [] k = 3 ->  \* Tea Time
           <<<<"p","e","t","a","n","g">>, <<"p","t","g">>, <<"t","e","a">>,
             <<"t","e","a"," ","t","i","m","e">>, <<"h","i"," ","t","e","a">>,
             <<"h","i","-","t","e","a">>, <<"s","n","a","c","k">>>>
      [] k = 4 ->  \* Dinner
           <<<<"m","a","l","a","m">>, <<"m","l","m">>, <<"d","i","n","n","e","r">>,
             <<"s","u","p","p","e","r">>, <<"n","i","g","h","t">>>>

\* the areas of LOCATION_SYNONYMS in the order the dictionary lists them
LocationCanonicals ==
    <<<<"I","n","s","i","d","e"," ","U","T","P">>, <<"T","r","o","n","o","h">>,
      <<"B","a","n","d","a","r"," ","U","n","i","v","e","r","s","i","t","i">>,
      <<"O","u","t","s","i","d","e"," ","U","T","P">>, <<"S","I","B","C">>>>

\* LOCATION_SYNONYMS: the phrases of the k-th entry
LOCATION_SYNONYMS(k) ==
    CASE k = 1 ->  \* Inside UTP
           <<<<"i","n","s","i","d","e"," ","u","t","p">>,
             <<"d","a","l","a","m"," ","u","t","p">>, <<"i","n"," ","u","t","p">>,
             <<"w","i","t","h","i","n"," ","u","t","p">>,
             <<"d","a","l","a","m"," ","k","a","m","p","u","s">>,
             <<"i","n","s","i","d","e"," ","c","a","m","p","u","s">>,
             <<"i","n","s","i","d","e">>>>
      [] k = 2 ->  \* Tronoh
           <<<<"t","r","o","n","o","h">>, <<"t","r","o","n","o">>,
             <<"t","e","r","o","n","o","h">>>>
      [] k = 3 ->  \* Bandar Universiti
           <<<<"b","a","n","d","a","r"," ","u","n","i","v","e","r","s","i","t","i">>,
             <<"b","a","n","d","a","r"," ","u","n","i">>, <<"b","d","r"," ","u","n","i">>,
             <<"b","u">>, <<"l","o","t","u","s">>>>
      [] k = 4 ->  \* Outside UTP
           <<<<"t","o","w","n">>, <<"l","u","a","r">>, <<"o","u","t","s","i","d","e">>,
             <<"o","u","t">>>>
      [] k = 5 ->  \* SIBC
           <<<<"s","i","b","c">>, <<"s","i">>,
             <<"s","e","r","i"," ","i","s","k","a","n","d","a","r">>,
             <<"b","i","l","l","i","o","n">>>>

\* the characters of the texts in the order of their code points (sorted()
\* compares strings by them)
CodeOrder ==
    <<" ", "&", "'", "(", ")", ",", "-", "/">> \o Digits \o <<":", ";">>
        \o UpperChars \o <<"_">> \o LowerChars

CodeOf(c) == CHOOSE i \in 1..Len(CodeOrder) : CodeOrder[i] = c

\* a < b for two strings
RECURSIVE LessStr(_, _)
LessStr(a, b) ==
    IF b = <<>> THEN FALSE
    ELSE IF a = <<>> THEN TRUE
    ELSE IF a[1] = b[1] THEN LessStr(Tail(a), Tail(b))
    ELSE CodeOf(a[1]) < CodeOf(b[1])

\* sorted(S) for a set of strings
RECURSIVE Sorted(_)
Sorted(S) ==
    IF S = {} THEN <<>>
    ELSE LET least == CHOOSE a \in S : \A b \in S \ {a} : LessStr(a, b)
         IN  <<least>> \o Sorted(S \ {least})

\* re.split(r"[,/;]", raw): the set of the parts, each lying between two
\* neighbouring separators (the ends of the text count as separators)
SplitParts(raw) ==
    LET seps == {0, Len(raw) + 1} \cup {i \in 1..Len(raw) : raw[i] \in {",", "/", ";"}}
    IN  {SubSeq(raw, a + 1, b - 1) :
            <<a, b>> \in {p \in seps \X seps :
                             p[1] < p[2] /\ \A c \in seps : ~(p[1] < c /\ c < p[2])}}

\* get_known_cuisines (lines 332-338)
get_known_cuisines(df) ==
    Sorted({Strip(part) :
               part \in UNION {SplitParts(df[i].cuisine) :
                                  i \in {j \in 1..Len(df) : df[j].cuisine # NaN}}}
           \ {<<>>})

\* get_known_locations (lines 207-214)
get_known_locations(df) ==
    Sorted({Strip(df[i].location) : i \in {j \in 1..Len(df) : df[j].location # NaN}}
           \ {<<>>})

\* the list without the later copies of an entry (lines 434-439)
RECURSIVE Unique(_)
Unique(s) ==
    IF s = <<>> THEN <<>>
    ELSE LET front == Unique(SubSeq(s, 1, Len(s) - 1))
             last == s[Len(s)]
         IN  IF \E i \in 1..Len(front) : front[i] = last THEN front
             ELSE Append(front, last)

\* pick_cuisine (lines 421-441)
pick_cuisine(txt, df) ==
    LET t == Lower(txt)
        known == get_known_cuisines(df)
        by_synonym ==
            SelectSeq(CuisineCategories,
                      LAMBDA c : LET k == CHOOSE n \in 1..Len(CuisineCategories) :
                                              CuisineCategories[n] = c
                                 IN  \E i \in 1..Len(CUISINE_SYNONYMS(k)) :
                                         Contains(t, CUISINE_SYNONYMS(k)[i]))
        by_catalog == SelectSeq(known, LAMBDA c : Contains(t, Lower(c)))
    IN  Unique(by_synonym \o by_catalog)

\* pick_meal_type (lines 455-462)
RECURSIVE MealFrom(_, _)
MealFrom(t, k) ==
    IF k > Len(MealCategories) THEN sAnyCap
    ELSE IF \E i \in 1..Len(MEALTYPE_SYNONYMS(k)) : Contains(t, MEALTYPE_SYNONYMS(k)[i])
         THEN MealCategories[k]
         ELSE MealFrom(t, k + 1)

pick_meal_type(txt) == MealFrom(Lower(txt), 1)

\* pick_travel (lines 477-480): r"(\d+)\s*(min|mins|minute)"
pick_travel(txt) ==
    LET t == Lower(txt)
        S == {i \in 1..Len(t) :
                 /\ IsDigit(t[i])
                 /\ At(t, SkipSpaces(t, DigitsEnd(t, i)), sMin)}
        i == Leftmost(S)
    IN  IF i = 0 THEN <<>> ELSE <<NumberAt(t, i, DigitsEnd(t, i))>>

\* the element of a set of one
TheOne(S) == CHOOSE x \in S : TRUE

\* re.sub(r"\b" + re.escape(s) + r"\b", rep, t), from position i on: the text
\* up to the leftmost match, the replacement, and the rest treated alike
RECURSIVE ReplaceWord(_, _, _, _)
ReplaceWord(t, i, s, rep) ==
    LET M == {j \in i..Len(t) :
                 At(t, j, s) /\ WordBoundary(t, j) /\ WordBoundary(t, j + Len(s))}
        j == Leftmost(M)
    IN  IF M = {} THEN SubSeq(t, i, Len(t))
        ELSE SubSeq(t, i, j - 1) \o rep \o ReplaceWord(t, j + Len(s), s, rep)

\* normalize_location_text (lines 237-244), the inner loop: the phrases of
\* area k from the j-th on are replaced one after the other, each in the text
\* the replacements before it left
RECURSIVE NormalizeArea(_, _, _)
NormalizeArea(t, k, j) ==
    IF j > Len(LOCATION_SYNONYMS(k)) THEN t
    ELSE TheOne({NormalizeArea(replaced, k, j + 1) :
                    replaced \in {ReplaceWord(t, 1, LOCATION_SYNONYMS(k)[j],
                                              Lower(LocationCanonicals[k]))}})

\* the outer loop, area by area from area k on
RECURSIVE NormalizeFrom(_, _)
NormalizeFrom(t, k) ==
    IF k > Len(LocationCanonicals) THEN t
    ELSE TheOne({NormalizeFrom(done, k + 1) : done \in {NormalizeArea(t, k, 1)}})

normalize_location_text(txt) == NormalizeFrom(Lower(txt), 1)

\* re.sub(r"[^\w\s]", " ", t)
NoPunctuation(t) ==
    [i \in 1..Len(t) |-> IF IsWordChar(t[i]) \/ IsSpace(t[i]) THEN t[i] ELSE " "]

\* pick_location (lines 247-258)
pick_location(txt, df) ==
    LET t_no_punc == NoPunctuation(normalize_location_text(txt))
        known == get_known_locations(df)
        hits == {i \in 1..Len(known) : Contains(t_no_punc, Lower(known[i]))}
    IN  IF Contains(t_no_punc, Lower(sOutsideUTP)) THEN sOutsideUTP
        ELSE IF hits # {} THEN known[CHOOSE i \in hits : \A j \in hits : i <= j]
        ELSE sAnyCap

\* parse_one_shot (lines 486-497)
parse_one_shot(txt, df) ==
    LET cuisines == pick_cuisine(txt, df)
    IN  [cuisine |-> IF cuisines # <<>> THEN cuisines[1] ELSE None,
         cuisines |-> cuisines,
         max_budget |-> pick_budget(txt),
         budget_level |-> pick_budget_level(txt),
         meal_type |-> pick_meal_type(txt),
         max_travel |-> pick_travel(txt),
         halal_pref |-> pick_halal_pref(txt),
         location_pref |-> pick_location(txt, df)]

\* --------------------------------------------- one-shot chatbot (app_3.py)
\* str(n) for a whole number
RECURSIVE NumToChars(_)
NumToChars(n) ==
    IF n < 10 THEN <<Digits[n + 1]>>
    ELSE NumToChars(n \div 10) \o <<Digits[(n % 10) + 1]>>

\* str(list) of a list of strings, and of the empty list 'Any'
RECURSIVE ListText(_)
ListText(s) ==
    IF s = <<>> THEN <<>>
    ELSE (IF Len(s) > 1 THEN ListText(SubSeq(s, 1, Len(s) - 1)) \o <<",", " ">> ELSE <<>>)
         \o <<"'">> \o s[Len(s)] \o <<"'">>

\* prefs_summary (lines 503-511); a fixed piece of a bot text is held whole
prefs_summary(prefs) ==
    <<"- Cuisine: ">>
    \o (IF prefs.cuisines # <<>> THEN <<"[">> \o ListText(prefs.cuisines) \o <<"]">>
        ELSE sAnyCap)
    \o <<"- Budget: ">>
    \o (IF prefs.max_budget # <<>> /\ prefs.max_budget[1] # 0
        THEN <<"<= RM">> \o NumToChars(prefs.max_budget[1]) ELSE sAnyCap)
    \o <<"- Meal Time: ">> \o prefs.meal_type
    \o <<"- Distance: ">>
    \o (IF prefs.max_travel # <<>> /\ prefs.max_travel[1] # 0
        THEN <<"within ">> \o NumToChars(prefs.max_travel[1]) \o <<" mins">> ELSE sAnyCap)
    \o <<"- Halal?: ">>
    \o (IF StartsWith(Lower(prefs.halal_pref), sHalal) THEN <<"halal only">> ELSE <<" - ">>)
    \o <<"- Area: ">> \o prefs.location_pref

\* a numeric cell as an f-string shows it: "nan" for a missing one, else the
\* digits of the number (the decimal point a float column adds is left out)
NumCellText(x) == IF x = NaNNum THEN <<"n","a","n">> ELSE NumToChars(x[1])

\* the lines of the suggestion message (lines 668-678); the catalog of the
\* model has no hours column
RECURSIVE SuggestionLines(_)
SuggestionLines(rows) ==
    IF rows = <<>> THEN <<>>
    ELSE LET row == rows[1]
         IN  AsStr(row.name) \o <<" (">> \o AsStr(row.cuisine) \o <<") RM">>
             \o NumCellText(row.min_spend) \o <<" - RM">> \o NumCellText(row.max_spend)
             \o <<" | rating ">> \o NumCellText(row.rating)
             \o <<" | ">> \o AsStr(row.location)
             \o <<" | ">> \o NumCellText(row.travel_mins) \o <<" minutes">>
             \o <<" | Halal: ">> \o AsStr(row.halal)
             \o <<" | ">> \o AsStr(row.days) \o <<"<hr>">>
             \o SuggestionLines(Tail(rows))

GreetingV3 == <<"Hi! I'm MakanSini V3. Tell me what you're craving in a sentence.">>
TooGeneral == <<"Prompt too general, I couldn't catch any specific cuisine, budget, or location">>
NoMatch == <<"Hmm... no restaurants matched and are open today">>
Understood == <<"Here's what I understood:">>
Suggestions == <<"Here are some suggestions for you">>

\* add_message (lines 528-529)
add_message(ss, role, txt) ==
    [ss EXCEPT !.messages = Append(@, [role |-> role, text |-> txt, small |-> FALSE])]

\* a key of st.session_state set to a value
SetKey(ss, key, value) ==
    [k \in DOMAIN ss \cup {key} |-> IF k = key THEN value ELSE ss[k]]

\* init_session of app_3.py (lines 520-525)
init_session_v3(ss) ==
    IF "messages" \in DOMAIN ss THEN ss
    ELSE SetKey(ss, "messages",
                <<[role |-> "assistant", text |-> GreetingV3, small |-> FALSE]>>)

\* main, lines 571-577: init_session, then the storage of the last ranking and
\* the last preferences; <<>> is None, <<v>> the value v
Prologue(ss) ==
    LET a == init_session_v3(ss)
        b == IF "last_ranked" \in DOMAIN a THEN a ELSE SetKey(a, "last_ranked", <<>>)
    IN  IF "last_prefs" \in DOMAIN b THEN b ELSE SetKey(b, "last_prefs", <<>>)

\* reset_session of app_3.py (lines 537-539): the log is dropped; st.rerun()
\* then ends the run
reset_session_v3(ss) == [k \in DOMAIN ss \ {"messages"} |-> ss[k]]

\* main, lines 579-583, on a press of Start Over: reset_session is called and
\* its st.rerun() ends the run there, so the two assignments of None after the
\* call are never executed; the rerun starts with the prologue
StartOverRun(ss) == Prologue(reset_session_v3(Prologue(ss)))

\* main, lines 591-601: what the debug view draws
DebugView(ss, dm) ==
    IF dm /\ ss.last_ranked # <<>> THEN head(ss.last_ranked[1], 25) ELSE <<>>

\* main, lines 616-620: no cuisine, no budget and no area found
TooGeneralPrefs(prefs) ==
    /\ prefs.cuisine = None \/ prefs.cuisine = <<>>
    /\ prefs.max_budget = <<>>
    /\ prefs.location_pref = <<>> \/ Lower(prefs.location_pref) = sAny

MaxLog == 7          \* messages of the one-shot chat log

\* sentences a user may type to the one-shot chatbot
OneShotTexts ==
    {<<"c","h","e","a","p"," ","h","a","l","a","l"," ","m","a","m","a","k"," ",
       "i","n","s","i","d","e"," ","u","t","p">>,
     <<"W","e","s","t","e","r","n"," ","d","i","n","n","e","r"," ","i","n"," ",
       "T","r","o","n","o","h",","," ","u","n","d","e","r"," ","R","M","2","0">>,
     <<"k","o","r","e","a","n"," ","5"," ","m","i","n","s"," ","o","u","t","s","i","d","e">>,
     <<"h","e","l","l","o">>}

\* a run of main started by a typed sentence (lines 604-695), with the rerun
\* that draws the page
SendText ==
    /\ pc = "oneshot"
    /\ Len(session.messages) + 3 <= MaxLog
    /\ \E txt \in OneShotTexts : \E prefs \in {parse_one_shot(txt, catalog)} :
          LET logged == add_message(Prologue(session), "user", txt)
              stored == SetKey(logged, "last_prefs", <<prefs>>)
              understood == add_message(stored, "assistant",
                                        Understood \o prefs_summary(prefs))
          IN  IF TooGeneralPrefs(prefs)
              THEN /\ session' = add_message(stored, "assistant", TooGeneral)
                   /\ event' = "too_general"
              ELSE \E rk \in score_restaurants(catalog, prefs, TRUE, today) :
                      IF rk = <<>>
                      THEN /\ session' = SetKey(add_message(understood, "assistant", NoMatch),
                                                "last_ranked", <<>>)
                           /\ event' = "no_match"
                      ELSE /\ session' =
                                SetKey(add_message(understood, "assistant",
                                                   Suggestions
                                                   \o SuggestionLines(results_to_show(rk))),
                                       "last_ranked", <<rk>>)
                           /\ event' = "suggested"
    /\ shown' = DebugView(session', debug_mode)
    /\ UNCHANGED <<catalog, preferences, only_open_today, today, ranked, prevRanked,
                   ncalls, calledOn, pc>>
    /\ UNCHANGED <<opened, csv, text, picked, debug_mode>>

\* a run of main started by the Start Over button, with the rerun that draws
\* the page
StartOverV3 ==
    /\ pc = "oneshot"
    /\ session' = StartOverRun(session)
    /\ event' = "start_over"
    /\ shown' = DebugView(session', debug_mode)
    /\ UNCHANGED <<catalog, preferences, only_open_today, today, ranked, prevRanked,
                   ncalls, calledOn, pc>>
    /\ UNCHANGED <<opened, csv, text, picked, debug_mode>>

\* a run of main started by the debug checkbox
ToggleDebug ==
    /\ pc = "oneshot"
    /\ debug_mode' = ~debug_mode
    /\ session' = Prologue(session)
    /\ event' = "debug_toggled"
    /\ shown' = DebugView(session', debug_mode')
    /\ UNCHANGED <<catalog, preferences, only_open_today, today, ranked, prevRanked,
                   ncalls, calledOn, pc>>
    /\ UNCHANGED <<opened, csv, text, picked>>

\* the catalogs the one-shot chatbot is run on
OneShotCatalogs == {<<RowA, RowB>>, <<RowC>>}

\* the first load of the page
InitOneShot ==
    /\ catalog \in OneShotCatalogs
    /\ preferences = NoPreference
    /\ only_open_today = TRUE
    /\ today \in Weekdays
    /\ ranked = <<>>
    /\ prevRanked = <<>>
    /\ ncalls = 0
    /\ calledOn = None
    /\ shown = <<>>
    /\ pc = "oneshot"
    /\ opened = <<>>
    /\ csv = <<>>
    /\ text = <<>>
    /\ picked = <<>>
    /\ session = Prologue(<<>>)
    /\ event = "none"
    /\ debug_mode = FALSE

NextOneShot == SendText \/ StartOverV3 \/ ToggleDebug

SpecOneShot == InitOneShot /\ [][NextOneShot]_vars

\* ------------------------------------------ claims on the one-shot chatbot
\* C21: after Start Over in the one-shot chatbot, last_ranked and last_prefs
\* are both None and the message log is the single greeting message, so the
\* debug view shows no ranking from before the reset.
C21_StartOverClearsResults ==
    event = "start_over" =>
        /\ session.last_ranked = <<>>
        /\ session.last_prefs = <<>>
        /\ Len(session.messages) = 1
        /\ session.messages[1].role = "assistant"
        /\ session.messages[1].text = GreetingV3
        /\ shown = <<>>
====
